---- MODULE Spec2Model ----
(***************************************************************************)
(* State-machine model of sylar::IOManager (fiber_lib/6hook): the per-fd   *)
(* event table, the epoll registration it mirrors, the pending-event       *)
(* counter, the reactor loop (IOManager::idle) and the submission of       *)
(* waiters to the scheduler's task queue.                                  *)
(*                                                                         *)
(* Event masks are sets of bit values; READ/WRITE coincide with            *)
(* EPOLLIN/EPOLLOUT as in the source, so one representation serves both.   *)
(* An assertion failure aborts the process: `crashed` records it and no    *)
(* action is enabled afterwards.                                           *)
(***************************************************************************)
EXTENDS Integers, Sequences, FiniteSets, TLC

\* ---------------------------------------------------------------- bounds
MaxReg == 2        \* number of successful addEvent calls (one fresh waiter each)
MaxGen == 2        \* FdContext objects ever allocated for one table index
MaxTask == 3       \* tasks submitted with scheduleLock
MaxTimer == 2      \* Timer objects ever constructed
MaxTime == 2       \* last value of the clock, in milliseconds units
TicksPerMs == 2    \* ticks of the system clock in one unit of std::chrono::milliseconds
MaxDrain == 4      \* rounds of the loop of listExpiredCb followed
MaxFront == 1      \* timers added while two reactors are followed
MaxHook == 1       \* coroutines that make a hooked call
MaxHookTime == 1   \* last value of the clock while hooked calls are followed
MaxCallerTask == 2 \* tasks scheduled before stop() of a scheduler that uses the caller
MaxTickleTask == 2 \* tasks scheduled while the self-pipe is followed
MaxTickleTime == 1 \* last value of the clock while the self-pipe is followed
MaxSleep == 2      \* tasks that sleep, submitted before stop()

\* ------------------------------------------------------ program constants
READ == 1
WRITE == 4
EPOLLIN == 1
EPOLLOUT == 4
EPOLLERR == 8
EPOLLHUP == 16
InitialSize == 32
\* durations are counted in units of 5000 ms
MAX_TIMEOUT == 1   \* 5000 ms
HOUR == 720        \* 60 * 60 * 1000 ms
ETIMEDOUT == 110
ALL_ONES == -1     \* ~0ull, written as the signed value of the same bits

Nil == "nil"
Event == {READ, WRITE}

\* threads that call addEvent/delEvent/cancelEvent/cancelAll, and workers
\* whose idle coroutine runs the reactor loop
Callers == {"c1", "c2"}
Reactors == {"r1", "r2"}
\* descriptors used: both lie beyond the initial table, and
\* 33 * 1.5 = 49 <= 50, so the two possible growths do not commute
Fds == {5, 33, 50}
Gens == 1..MaxGen
Ids == 1..MaxReg

VARIABLES
    m_fdContexts,        \* [size, slot]: slot[fd] = generation of the FdContext at index fd, 0 = none
    created,             \* per index: number of FdContext objects allocated so far
    fdctx,               \* heap: [fd][gen] -> FdContext (events, read, write, mutex)
    epoll,               \* kernel interest list of m_epfd: fd -> [reg, events, ptr]
    m_pendingEventCount,
    m_tasks,             \* Scheduler::m_tasks
    m_idleThreadCount,
    tickle,              \* self-pipe: [bytes, edge]
    call,                \* per caller: the call in progress (NoCall when none)
    reactor,             \* per worker: [pc, events (epoll_wait's output still to process), cur]
    nextId,              \* identity of the next waiter to be registered
    life,                \* history: how each waiter's registration began and ended
    cancelledInFlight,   \* history, per worker: events cancelled by cancelEvent while a
                         \* report naming them, already returned by epoll_wait, waits
    crashed              \* NoCrash, or the assertion that aborted the process

\* Scheduler::run, Fiber and TimerManager (their own specifications below;
\* the specifications of the event table leave them as Init sets them)
VARIABLES
    fiber,               \* heap of Fiber objects: id -> [m_state, m_cb, m_stack, m_runInScheduler, m_ctx, m_mutex]
    t_fiber,             \* thread_local t_fiber, per thread
    t_thread_fiber,      \* thread_local t_thread_fiber, per thread
    t_scheduler_fiber,   \* thread_local t_scheduler_fiber, per thread
    exec,                \* per thread: the context the processor is in, [who, pc]
    local,               \* per thread: the locals of Scheduler::run (task, tickle_me)
    m_activeThreadCount,
    m_stopping,
    stopCall,            \* the call of Scheduler::stop: position and tickles done
    producer,            \* per producer thread: its scheduleLock call in progress
    nextTask,            \* identity of the next task to be submitted
    ran,                 \* history, per closure: the threads that entered it, in order
    tickles,             \* history, per task: was the queue empty when scheduleLock
                         \* appended it, and the calls of tickle() that scheduleLock made
    timer,               \* heap of Timer objects: id -> [m_next, m_ms, m_recurring, m_cb]
    m_timers,            \* TimerManager::m_timers: the identities the std::set holds
    m_tickled,
    m_previouseTime,
    now,                 \* std::chrono::system_clock::now()
    nextTimer,           \* identity of the next Timer to be constructed
    idle,                \* per thread: the locals of IOManager::idle
    timerCall,           \* per thread: its last call of addTimer or Timer::cancel
    do_io                \* per task: the locals of its call of do_io (tinfo->cancelled,
                         \* timer, n, errno)

fiberState == <<fiber, t_fiber, t_thread_fiber, t_scheduler_fiber, exec>>
schedState == <<local, m_activeThreadCount, m_stopping, stopCall, producer, nextTask, ran,
               tickles>>
timerState == <<timer, m_timers, m_tickled, m_previouseTime, now, nextTimer, idle,
               timerCall>>
otherState == <<fiberState, schedState, timerState>>
ioState == <<m_fdContexts, created, fdctx, epoll, m_pendingEventCount, call, reactor,
             nextId, life, cancelledInFlight>>

vars == <<m_fdContexts, created, fdctx, epoll, m_pendingEventCount, m_tasks,
          m_idleThreadCount, tickle, call, reactor, nextId, life,
          cancelledInFlight, crashed, otherState, do_io>>

\* ------------------------------------------------------------- data types
EmptyEventContext == [scheduler |-> FALSE, fiber |-> 0, cb |-> 0]

NewFdContext == [events |-> {}, read |-> EmptyEventContext,
                 write |-> EmptyEventContext, mutex |-> Nil]

getEventContext(fc, event) == IF event = READ THEN fc.read ELSE fc.write

SetEventContext(fc, event, ec) ==
    IF event = READ THEN [fc EXCEPT !.read = ec] ELSE [fc EXCEPT !.write = ec]

\* a reset that leaves the EventContext as it is (used to test the
\* properties)
keepEventContext(fc, event) == fc

resetEventContext(fc, event) == SetEventContext(fc, event, EmptyEventContext)

\* the waiter identity held by an EventContext, 0 when it is empty
WaiterOf(ec) == IF ec.cb # 0 THEN ec.cb ELSE ec.fiber

\* ------------------------------------------------------------ the kernel
\* epoll_ctl on m_epfd. `fail` is the environment's choice of an error the
\* program cannot foresee (ENOMEM, ENOSPC, ...); ADD on a registered fd is
\* EEXIST, MOD/DEL on an unregistered one ENOENT. A failed call changes nothing.
NotInEpoll == [reg |-> FALSE, events |-> {}, ptr |-> 0]

EpollCtl(ep, op, fd, events, ptr, fail) ==
    IF fail \/ (op = "ADD" /\ ep[fd].reg) \/ (op # "ADD" /\ ~ep[fd].reg)
    THEN [rt |-> -1, epoll |-> ep]
    ELSE [rt |-> 0,
          epoll |-> [ep EXCEPT ![fd] =
                        IF op = "DEL" THEN NotInEpoll
                        ELSE [reg |-> TRUE, events |-> events, ptr |-> ptr]]]

\* the READ/WRITE interest the kernel holds for fd (empty when fd is not in epoll)
EpollMask(fd) == IF epoll[fd].reg THEN epoll[fd].events ELSE {}

\* what one epoll_wait may hand back: for any registered fds, a non-empty set
\* of flags among the interest mask plus EPOLLERR / EPOLLHUP (which the kernel
\* reports whatever the mask), each with the data.ptr stored at registration
ReportsFor(fd) ==
    IF ~epoll[fd].reg THEN {}
    ELSE { [fd |-> fd, ptr |-> epoll[fd].ptr, events |-> io \cup eh] :
             io \in SUBSET epoll[fd].events,
             eh \in {{}, {EPOLLHUP}} }
         \ { [fd |-> fd, ptr |-> epoll[fd].ptr, events |-> {}] }

\* the report of the self-pipe's read end (event.data.fd == m_tickleFds[0])
TickleReport == [fd |-> 0, ptr |-> 0, events |-> {EPOLLIN}]

\* the self-pipe after read() emptied it (ioscheduler.cpp line 442): the
\* read end is registered edge-triggered and epoll_wait reports a file only
\* if it is still readable, so an edge that the read overtook is not reported
Drained == [bytes |-> 0, edge |-> FALSE]

\* ------------------------------------------------------------- Scheduler
\* an IOManager::tickle that writes whether a worker is idle or not (used to
\* test the properties)
TickleAlways(tk) == [bytes |-> tk.bytes + 1, edge |-> TRUE]

\* a decrement that leaves the counter as it is (used to test the
\* properties)
fetch_keep(n) == n

\* operator-- of std::atomic<size_t>: 0 wraps to ~0
fetch_sub(n) == IF n = 0 THEN ALL_ONES ELSE n - 1

\* IOManager::tickle: one byte into the self-pipe when some worker is idle
Tickle(tk) ==
    IF m_idleThreadCount > 0
    THEN [bytes |-> tk.bytes + 1, edge |-> TRUE]
    ELSE tk

\* Scheduler::scheduleLock on the running values M (a record of the shared
\* state one handler works on): append unless the task is empty, tickle if
\* the queue was empty before
scheduleLock(M, task) ==
    LET need_tickle == M.tasks = <<>>
        pushed == IF task.fiber # 0 \/ task.cb # 0
                  THEN Append(M.tasks, task) ELSE M.tasks
    IN [M EXCEPT !.tasks = pushed,
                 !.tk = IF need_tickle THEN Tickle(M.tk) ELSE M.tk]

\* ScheduleTask(std::function*, thr) / ScheduleTask(shared_ptr<Fiber>*, thr):
\* the handle is moved out of the EventContext into the task
TaskOf(ctx) ==
    IF ctx.cb # 0
    THEN [fiber |-> 0, cb |-> ctx.cb, thread |-> -1]
    ELSE [fiber |-> ctx.fiber, cb |-> 0, thread |-> -1]

\* --------------------------------------------------------------- FdContext
\* FdContext::triggerEvent: assert the bit, clear it, submit the waiter,
\* reset the EventContext. Nothing runs once an assertion has failed.
NoCrash == [assert |-> "none", fd |-> 0, event |-> 0]

\* a trigger that submits the waiter and leaves the registration in place
\* (used to test the properties)
triggerAndKeep(M, event) == scheduleLock(M, TaskOf(getEventContext(M.fc, event)))

triggerEvent(M, event) ==
    IF M.crash # NoCrash THEN M
    ELSE IF event \notin M.fc.events
    THEN [M EXCEPT !.crash = [assert |-> "triggerEvent", fd |-> M.fd, event |-> event]]
    ELSE LET ctx == getEventContext(M.fc, event)
             M1 == [M EXCEPT !.fc.events = @ \ {event}]
             M2 == scheduleLock(M1, TaskOf(ctx))
         IN [M2 EXCEPT !.fc = resetEventContext(M2.fc, event)]

\* a handler that leaves the counter alone (used to test the properties)
SkipPending(M) == M

\* --m_pendingEventCount / ++m_pendingEventCount (skipped after an abort)
DecPending(M) == IF M.crash # NoCrash THEN M ELSE [M EXCEPT !.count = @ - 1]

IncPending(M) == IF M.crash # NoCrash THEN M ELSE [M EXCEPT !.count = @ + 1]

\* the shared state a handler holding the mutex of FdContext <<fd, gen>> works on
Running(fd, gen) ==
    [fd |-> fd, fc |-> fdctx[fd][gen], tasks |-> m_tasks, tk |-> tickle,
     count |-> m_pendingEventCount, crash |-> NoCrash]

\* int -> bool conversion of a returned value
ToBool(i) == i # 0

\* ------------------------------------------ the bodies run under the mutex
\* addEvent after a successful epoll_ctl: count, bit, EventContext
addEventBody(M, event, kind, id) ==
    LET M1 == IncPending(M)
        M2 == [M1 EXCEPT !.fc.events = @ \cup {event}]
        ctx == getEventContext(M2.fc, event)
    IN IF ctx.scheduler \/ ctx.fiber # 0 \/ ctx.cb # 0
       THEN [M2 EXCEPT !.crash = [assert |-> "addEvent", fd |-> M.fd, event |-> event]]
       ELSE [M2 EXCEPT !.fc = SetEventContext(M2.fc, event,
                [scheduler |-> TRUE,
                 fiber |-> IF kind = "cb" THEN 0 ELSE id,
                 cb |-> IF kind = "cb" THEN id ELSE 0])]

\* cancelEvent after a successful epoll_ctl: count, then trigger
cancelEventBody(M, event) == triggerEvent(DecPending(M), event)

\* a delEvent that also fires the waiter (used to test the properties)
delEventAndFire(M, event) == triggerEvent(DecPending(M), event)

\* delEvent after a successful epoll_ctl: count, bit, reset; nothing is submitted
delEventBody(M, event) ==
    LET M1 == DecPending(M)
        M2 == [M1 EXCEPT !.fc.events = M.fc.events \ {event}]
    IN [M2 EXCEPT !.fc = resetEventContext(M2.fc, event)]

\* cancelAll after a successful epoll_ctl: trigger what is registered
cancelAllBody(M) ==
    LET M1 == IF READ \in M.fc.events THEN DecPending(triggerEvent(M, READ)) ELSE M
        M2 == IF WRITE \in M1.fc.events THEN DecPending(triggerEvent(M1, WRITE)) ELSE M1
    IN IF M2.crash = NoCrash /\ M2.fc.events # {}
       THEN [M2 EXCEPT !.crash = [assert |-> "cancelAll", fd |-> M.fd, event |-> 0]]
       ELSE M2

\* idle: the flags of a report, with EPOLLERR/EPOLLHUP widened to the
\* registered events, as READ/WRITE
RealEvents(flags, fc) ==
    LET ev == IF flags \cap {EPOLLERR, EPOLLHUP} # {}
              THEN flags \cup ({EPOLLIN, EPOLLOUT} \cap fc.events)
              ELSE flags
    IN (IF EPOLLIN \in ev THEN {READ} ELSE {}) \cup
       (IF EPOLLOUT \in ev THEN {WRITE} ELSE {})

\* idle after a successful epoll_ctl: trigger what real_events names
idleTrigger(M, real_events) ==
    LET M1 == IF READ \in real_events THEN DecPending(triggerEvent(M, READ)) ELSE M
    IN IF WRITE \in real_events THEN DecPending(triggerEvent(M1, WRITE)) ELSE M1

\* IOManager::contextResize(n) on the table: the vector takes size n (it
\* shrinks when n is smaller), every null slot below n gets a new FdContext
contextResize(n) ==
    LET fresh(fd) == fd < n /\ m_fdContexts.slot[fd] = 0
    IN [table |-> [size |-> n,
                   slot |-> [fd \in Fds |->
                               IF fd >= n THEN 0
                               ELSE IF fresh(fd) THEN created[fd] + 1
                               ELSE m_fdContexts.slot[fd]]],
        created |-> [fd \in Fds |-> IF fresh(fd) THEN created[fd] + 1 ELSE created[fd]],
        ok |-> \A fd \in Fds : fresh(fd) => created[fd] < MaxGen]

\* ------------------------------------------------------------------ Fiber
\* threads: 0 is the thread that built the scheduler (it posts tasks and
\* calls stop), 1 and 2 are the workers of the thread pool
Workers == {1, 2}
Threads == {0} \cup Workers
Tasks == 1..MaxTask
\* closures run on fibers: those of the tasks, and for task n the timer
\* callback MaxTask + n that schedules the fiber of n again after a sleep
Closures == 1..(2 * MaxTask)

\* identities of Fiber objects: the main fiber of a thread (GetThis), the
\* idle fiber of a run loop, the fiber a task carries, the fiber Scheduler::run
\* builds around a task's callback, and m_schedulerFiber, the dispatch fiber
\* of a scheduler that uses the caller's thread
NoFiber == <<"none", 0>>
MainFiber(th) == <<"main", th>>
IdleFiber(th) == <<"idle", th>>
TaskFiber(n) == <<"task", n>>
CbFiber(n) == <<"cb", n>>
m_schedulerFiber == <<"scheduler", 0>>
FiberIds == { MainFiber(th) : th \in Threads } \cup { IdleFiber(th) : th \in Threads }
            \cup { TaskFiber(n) : n \in Tasks } \cup { CbFiber(n) : n \in Closures }
            \cup { m_schedulerFiber }

\* entry closures: std::function<void()>; NoCb is the empty one (nullptr)
NoCb == [fn |-> "nullptr", arg |-> 0]
TaskCb(n) == [fn |-> "task", arg |-> n]
IdleCb == [fn |-> "idle", arg |-> 0]
\* std::bind(&Scheduler::run, this)
RunCb == [fn |-> "run", arg |-> 0]

\* a saved or running context: whose stack it runs on and where it continues
Context(f, pc) == [who |-> f, pc |-> pc]

\* a slot of the heap no Fiber has been constructed in
NoFiberObject == [m_state |-> "none", m_cb |-> NoCb, m_stack |-> NoFiber,
                  m_runInScheduler |-> FALSE, m_ctx |-> Context(NoFiber, "none"),
                  m_mutex |-> {}]

\* Fiber::Fiber(): the main fiber of a thread, RUNNING, no stack of its own
MainFiberObject(f) == [NoFiberObject EXCEPT !.m_state = "RUNNING",
                                            !.m_ctx = Context(f, "getcontext")]

\* Fiber::Fiber(cb, stacksize, run_in_scheduler): READY, a malloc'ed stack
\* (named after the fiber that allocated it), the context bound to MainFunc
NewFiber(f, cb, run_in_scheduler) ==
    [m_state |-> "READY", m_cb |-> cb, m_stack |-> f,
     m_runInScheduler |-> run_in_scheduler, m_ctx |-> Context(f, "MainFunc"),
     m_mutex |-> {}]

\* a parent that is the thread-root for every fiber (used to test the
\* properties)
ParentThreadRoot(F, th, f) == t_thread_fiber[th]

\* the fiber a resume or yield of f switches with on thread th
Parent(F, th, f) ==
    IF F.fiber[f].m_runInScheduler THEN t_scheduler_fiber[th] ELSE t_thread_fiber[th]

\* the fiber layer one thread works on: the heap, t_fiber, the processor
\* contexts and the assertion that failed, if any
FiberLayer == [fiber |-> fiber, t_fiber |-> t_fiber, exec |-> exec, crash |-> crashed]

FiberAssert(what) == [assert |-> what, fd |-> 0, event |-> 0]

\* a reset that leaves the context where the fiber stopped (used to test the
\* properties)
resetKeepContext(F, f, cb) ==
    [F EXCEPT !.fiber[f].m_state = "READY", !.fiber[f].m_cb = cb]

\* Fiber::reset: a TERM fiber that owns a stack becomes READY with a new
\* entry closure, its context bound to MainFunc again on the same stack
reset(F, f, cb) ==
    IF F.crash # NoCrash THEN F
    ELSE IF ~(F.fiber[f].m_stack # NoFiber /\ F.fiber[f].m_state = "TERM")
    THEN [F EXCEPT !.crash = FiberAssert("reset")]
    ELSE [F EXCEPT !.fiber[f].m_state = "READY", !.fiber[f].m_cb = cb,
                   !.fiber[f].m_ctx = Context(F.fiber[f].m_stack, "MainFunc")]

\* a resume that leaves the state of the fiber as it is (used to test the
\* properties)
resumeKeepState(F, th, f, cont) ==
    [F EXCEPT !.fiber[Parent(F, th, f)].m_ctx = Context(F.exec[th].who, cont),
              !.t_fiber[th] = f,
              !.exec[th] = F.fiber[f].m_ctx]

\* Fiber::resume called on thread th, whose code continues at cont when
\* control comes back: assert READY, RUNNING, SetThis(this), swapcontext
\* saving into the parent's m_ctx
resume(F, th, f, cont) ==
    IF F.crash # NoCrash THEN F
    ELSE IF F.fiber[f].m_state # "READY"
    THEN [F EXCEPT !.crash = FiberAssert("resume")]
    ELSE [F EXCEPT !.fiber[f].m_state = "RUNNING",
                   !.fiber[Parent(F, th, f)].m_ctx = Context(F.exec[th].who, cont),
                   !.t_fiber[th] = f,
                   !.exec[th] = F.fiber[f].m_ctx]

\* a yield that leaves every fiber READY, the one whose entry returned
\* included (used to test the properties)
yieldReady(F, th, f, cont) ==
    [F EXCEPT !.fiber[f].m_state = "READY",
              !.t_fiber[th] = Parent(F, th, f),
              !.fiber[f].m_ctx = Context(F.exec[th].who, cont),
              !.exec[th] = IF Parent(F, th, f) = f THEN Context(F.exec[th].who, cont)
                           ELSE F.fiber[Parent(F, th, f)].m_ctx]

\* Fiber::yield called on f by thread th, whose code continues at cont when
\* f is resumed: assert RUNNING or TERM, READY unless TERM, SetThis(parent),
\* swapcontext saving into f's m_ctx
yield(F, th, f, cont) ==
    IF F.crash # NoCrash THEN F
    ELSE IF F.fiber[f].m_state \notin {"RUNNING", "TERM"}
    THEN [F EXCEPT !.crash = FiberAssert("yield")]
    ELSE [F EXCEPT !.fiber[f].m_state = IF @ # "TERM" THEN "READY" ELSE @,
                   !.t_fiber[th] = Parent(F, th, f),
                   !.fiber[f].m_ctx = Context(F.exec[th].who, cont),
                   !.exec[th] = IF Parent(F, th, f) = f THEN Context(F.exec[th].who, cont)
                                ELSE F.fiber[Parent(F, th, f)].m_ctx]

\* Fiber::MainFunc after m_cb() returned: the closure is cleared and the
\* state is TERM
MainFuncEnd(F, th) ==
    LET curr == F.exec[th].who
    IN [F EXCEPT !.fiber[curr].m_cb = NoCb, !.fiber[curr].m_state = "TERM",
                 !.exec[th].pc = "TERM"]

\* the last line of Fiber::MainFunc: the fiber yields for the last time
MainFuncYield(F, th) == yield(F, th, F.exec[th].who, "unreachable")

\* the new values of the fiber layer become the state
CommitFiber(F) ==
    /\ fiber' = F.fiber
    /\ t_fiber' = F.t_fiber
    /\ exec' = F.exec
    /\ crashed' = F.crash

\* ------------------------------------------------------------ Scheduler::run
\* stop() has not been called
NoStop == [pc |-> "none", i |-> 0]

\* the pool of a scheduler with one thread that does not use the caller's
\* thread, and its m_threadCount
Pool == {1}
m_threadCount == Cardinality(Pool)

\* threads that call scheduleLock
Producers == {"p1", "p2"}

\* ScheduleTask(): no fiber, no callback, any thread
NoTask == [fiber |-> 0, cb |-> 0, thread |-> -1]

NoSchedule == [pc |-> "none", need_tickle |-> FALSE, task |-> 0]

\* the fiber object a task of the queue is run on
FiberOf(task) == IF task.fiber # 0 THEN TaskFiber(task.fiber) ELSE CbFiber(task.cb)

\* the closure a fiber object runs, 0 for the main and idle fibers and for a
\* thread that has no fiber yet
TaskRunBy(f) == IF f # NoFiber /\ fiber[f].m_cb.fn = "task" THEN fiber[f].m_cb.arg ELSE 0

\* ------------------------------------------------------------ TimerManager
Timers == 1..MaxTimer

\* std::chrono::milliseconds(n) added to a time_point of system_clock: the
\* clock's duration is finer than a millisecond
milliseconds(n) == n * TicksPerMs

\* a conversion to milliseconds that rounds up
duration_ceil(d) == (d + TicksPerMs - 1) \div TicksPerMs

\* std::chrono::duration_cast<std::chrono::milliseconds>(d).count(): the
\* quotient is truncated toward zero
duration_cast(d) == IF d >= 0 THEN d \div TicksPerMs ELSE -((-d) \div TicksPerMs)

Clock == 0..milliseconds(MaxTime)

\* a slot of the heap no Timer has been constructed in
NoTimer == [m_next |-> 0, m_ms |-> 0, m_recurring |-> FALSE, m_cb |-> 0]

\* Timer::Timer: the deadline is the time of construction plus ms
NewTimer(ms, cb, recurring) ==
    [m_next |-> now + milliseconds(ms), m_ms |-> ms, m_recurring |-> recurring, m_cb |-> cb]

\* the timer state one call works on, under TimerManager::m_mutex
TimerLayer == [timer |-> timer, m_timers |-> m_timers, m_tickled |-> m_tickled]

\* Timer::Comparator: lhs->m_next < rhs->m_next
Comparator(T, lhs, rhs) == T.timer[lhs].m_next < T.timer[rhs].m_next

\* std::set: two keys neither of which is ordered before the other are the
\* same key
Equivalent(T, a, b) == ~Comparator(T, a, b) /\ ~Comparator(T, b, a)

\* m_timers.find(t): the elements of the set with t's key (one at most)
find(T, t) == { e \in T.m_timers : Equivalent(T, e, t) }

\* m_timers.begin(): the elements no other is ordered before (one at most)
begin(T) == { e \in T.m_timers : \A o \in T.m_timers : ~Comparator(T, o, e) }

\* m_timers.insert(t): nothing is inserted when the set holds t's key; `it`
\* is the element with t's key afterwards
insert(T, t) ==
    IF find(T, t) # {}
    THEN [T |-> T, it |-> find(T, t)]
    ELSE [T |-> [T EXCEPT !.m_timers = @ \cup {t}], it |-> {t}]

\* addTimer that never reports its timer at the front
addTimerSilent(T, t) == [T |-> insert(T, t).T, at_front |-> FALSE]

\* TimerManager::addTimer(timer), the part under the write lock: insert,
\* at_front when the iterator insert returned is begin() and m_tickled is
\* unset, m_tickled set in that case
addTimer(T, t) ==
    LET ins == insert(T, t)
        at_front == ins.it = begin(ins.T) /\ ~T.m_tickled
    IN [T |-> [ins.T EXCEPT !.m_tickled = IF at_front THEN TRUE ELSE @],
        at_front |-> at_front]

\* Timer::cancel: false when the callback is empty; otherwise the callback is
\* cleared and the element find() returns is erased
cancel(T, t) ==
    IF T.timer[t].m_cb = 0
    THEN [T |-> T, rv |-> FALSE]
    ELSE LET T1 == [T EXCEPT !.timer[t].m_cb = 0]
         IN [T |-> [T1 EXCEPT !.m_timers = @ \ find(T1, t)], rv |-> TRUE]

\* TimerManager::getNextTimer at clock value t: m_tickled is cleared; ~0ull
\* for the empty set, 0 when the first deadline is not after t, the distance
\* in whole milliseconds
\* otherwise
getNextTimer(T, t) ==
    LET first == CHOOSE e \in begin(T) : TRUE
        time == T.timer[first].m_next
    IN [T |-> [T EXCEPT !.m_tickled = FALSE],
        rv |-> IF T.m_timers = {} THEN ALL_ONES
               ELSE IF t >= time THEN 0 ELSE duration_cast(time - t)]

\* std::min on uint64_t, ~0ull being the largest value
Min64(a, b) == IF a = ALL_ONES THEN b ELSE IF b = ALL_ONES THEN a
               ELSE IF a < b THEN a ELSE b

\* TimerManager::detectClockRollover at clock value t
detectClockRollover(t) == t < m_previouseTime - milliseconds(HOUR)

\* the loop of TimerManager::listExpiredCb at clock value t, cbs collected so
\* far: while the set is not empty and (rollover or the first deadline is not
\* after t), the first timer is erased and its callback collected; a
\* recurring timer is inserted again with deadline t + m_ms, a one-shot one
\* loses its callback.  The loop is cut after `fuel` rounds (diverged).
RECURSIVE Drain(_, _, _, _, _)
Drain(T, cbs, t, rollover, fuel) ==
    LET temp == CHOOSE e \in begin(T) : TRUE
        T1 == [T EXCEPT !.m_timers = @ \ {temp}]
        T2 == IF T.timer[temp].m_recurring
              THEN insert([T1 EXCEPT !.timer[temp].m_next =
                               t + milliseconds(T.timer[temp].m_ms)],
                          temp).T
              ELSE [T1 EXCEPT !.timer[temp].m_cb = 0]
    IN IF T.m_timers = {} \/ ~(rollover \/ T.timer[temp].m_next <= t)
       THEN [T |-> T, cbs |-> cbs, diverged |-> FALSE]
       ELSE IF fuel = 0
       THEN [T |-> T, cbs |-> cbs, diverged |-> TRUE]
       ELSE Drain(T2, Append(cbs, T.timer[temp].m_cb), t, rollover, fuel - 1)

\* TimerManager::listExpiredCb
listExpiredCb(T, t) == Drain(T, <<>>, t, detectClockRollover(t), MaxDrain)

NoTimerCall == [pc |-> "none", op |-> "none", t |-> 0, rv |-> FALSE]

\* do_io not called: tinfo->cancelled is 0, no timer, nothing returned
NoIo == [cancelled |-> 0, timer |-> 0, n |-> 0, errno |-> 0]

\* -------------------------------------------------------- IOManager::idle
NoIdle == [deadline |-> 0, cbs |-> <<>>, pipe |-> FALSE]

\* the idle coroutine of thread th is at one of the given places
InIdle(th, pcs) == exec[th].who = IdleFiber(th) /\ exec[th].pc \in pcs

\* ------------------------------------------------------------------ Init
NoCall == [op |-> "none", fd |-> 0, event |-> 0, target |-> {},
           pc |-> "none", ctx |-> 0, rt |-> 0, rv |-> 0]

NoReport == [fd |-> 0, ptr |-> 0, real_events |-> {}]

\* the state the constructors and start() leave: contextResize(32), nothing
\* registered, the threads `started` of the pool in Scheduler::run; with
\* use_caller the constructing thread 0 has its main fiber and the dispatch
\* fiber, which is its t_scheduler_fiber (scheduler.cpp lines 32-45)
InitWith(t0, started, use_caller) ==
    /\ m_fdContexts = [size |-> InitialSize,
                       slot |-> [fd \in Fds |-> IF fd < InitialSize THEN 1 ELSE 0]]
    /\ created = [fd \in Fds |-> IF fd < InitialSize THEN 1 ELSE 0]
    /\ fdctx = [fd \in Fds |-> [g \in Gens |-> NewFdContext]]
    /\ epoll = [fd \in Fds |-> NotInEpoll]
    /\ m_pendingEventCount = 0
    /\ m_tasks = <<>>
    /\ m_idleThreadCount = 0
    /\ tickle = [bytes |-> 0, edge |-> FALSE]
    /\ call = [c \in Callers |-> NoCall]
    /\ reactor = [r \in Reactors |-> [pc |-> "run", events |-> {}, cur |-> NoReport]]
    /\ nextId = 1
    /\ life = [i \in Ids |-> "none"]
    /\ cancelledInFlight = [r \in Reactors |-> {}]
    /\ crashed = NoCrash
    \* Scheduler::start: every worker of the pool is in Scheduler::run, past
    \* Fiber::GetThis() and the construction of its idle fiber
    /\ fiber = [f \in FiberIds |->
                  IF \E th \in started : f = MainFiber(th) THEN MainFiberObject(f)
                  ELSE IF \E th \in started : f = IdleFiber(th)
                  THEN NewFiber(f, IdleCb, TRUE)
                  ELSE IF use_caller /\ f = MainFiber(0) THEN MainFiberObject(f)
                  ELSE IF use_caller /\ f = m_schedulerFiber
                  THEN NewFiber(f, RunCb, FALSE)
                  ELSE NoFiberObject]
    /\ t_fiber = [th \in Threads |-> IF th \in started \/ (use_caller /\ th = 0)
                                      THEN MainFiber(th) ELSE NoFiber]
    /\ t_thread_fiber = [th \in Threads |->
                           IF th \in started \/ (use_caller /\ th = 0)
                           THEN MainFiber(th) ELSE NoFiber]
    /\ t_scheduler_fiber = [th \in Threads |->
                              IF th \in started THEN MainFiber(th)
                              ELSE IF use_caller /\ th = 0 THEN m_schedulerFiber
                              ELSE NoFiber]
    /\ exec = [th \in Threads |-> IF th \in started THEN Context(MainFiber(th), "loop")
                                   ELSE IF use_caller /\ th = 0
                                   THEN Context(MainFiber(0), "main")
                                   ELSE Context(NoFiber, "main")]
    /\ local = [th \in Threads |-> [task |-> NoTask, tickle_me |-> FALSE]]
    /\ m_activeThreadCount = 0
    /\ m_stopping = FALSE
    /\ stopCall = NoStop
    /\ producer = [p \in Producers |-> NoSchedule]
    /\ nextTask = 1
    /\ ran = [n \in Closures |-> <<>>]
    /\ tickles = [n \in Tasks |-> [wasEmpty |-> FALSE, calls |-> 0]]
    /\ timer = [t \in Timers |-> NoTimer]
    /\ m_timers = {}
    /\ m_tickled = FALSE
    /\ m_previouseTime = t0
    /\ now = t0
    /\ nextTimer = 1
    /\ idle = [th \in Threads |-> NoIdle]
    /\ timerCall = [th \in Threads |-> NoTimerCall]
    /\ do_io = [n \in Tasks |-> NoIo]

\* an IOManager that does not use the caller's thread, constructed when the
\* clock reads t0: both workers are in Scheduler::run
InitAt(t0) == InitWith(t0, Workers, FALSE)

\* the IOManager is constructed when the clock reads 0
Init == InitAt(0)

\* a reading of the clock more than an hour after 0
Late == milliseconds(HOUR) + 1

Live == crashed = NoCrash

\* write back what a handler did under the mutex of FdContext <<fd, gen>>;
\* the mutex is released on return, and stays held if the process aborted
Commit(M, fd, gen) ==
    /\ fdctx' = [fdctx EXCEPT ![fd][gen] =
                    IF M.crash = NoCrash THEN [M.fc EXCEPT !.mutex = Nil] ELSE M.fc]
    /\ m_tasks' = M.tasks
    /\ tickle' = M.tk
    /\ m_pendingEventCount' = M.count
    /\ crashed' = M.crash

\* history: the waiters whose EventContext was emptied between old and new
\* end their registration by `how`
Ended(old, new, how) ==
    LET gone == { WaiterOf(getEventContext(old, e)) : e \in Event } \
                { WaiterOf(getEventContext(new, e)) : e \in Event }
    IN life' = [i \in Ids |-> IF i \in gone THEN how ELSE life[i]]

\* history: the registrations a call for (fd, event) finds in force (event 0: any)
Registered(fd, event) ==
    { WaiterOf(getEventContext(fdctx[fd][g], e)) :
        g \in Gens, e \in IF event = 0 THEN Event ELSE {event} } \ {0}

\* --------------------------------------------------------------- addEvent
\* the waiters registered are in turn the calling coroutine (no cb given)
\* and a callback
KindOf(id) == IF id % 2 = 1 THEN "fiber" ELSE "cb"

\* an addEvent that takes every event for new (used to test the properties)
NeverAdded(fc, event) == FALSE

\* line 159: the event is already among the FdContext's events
AlreadyAdded(fc, event) == event \in fc.events

\* lines 139-153, first half: look the FdContext up under the shared lock
CallAddEvent(c, fd, event) ==
    /\ Live /\ call[c] = NoCall
    /\ nextId + Cardinality({d \in Callers : call[d].op = "addEvent"}) <= MaxReg
    /\ call' = [call EXCEPT ![c] =
                  [NoCall EXCEPT !.op = "addEvent", !.fd = fd, !.event = event,
                                 !.pc = IF m_fdContexts.size > fd THEN "lock" ELSE "grow",
                                 !.ctx = IF m_fdContexts.size > fd
                                         THEN m_fdContexts.slot[fd] ELSE 0]]
    /\ UNCHANGED <<do_io, m_fdContexts, created, fdctx, epoll, m_pendingEventCount, m_tasks,
                   m_idleThreadCount, tickle, reactor, nextId, life,
                   cancelledInFlight, crashed, otherState>>

\* lines 147-153: under the exclusive lock, contextResize(fd * 1.5) with no
\* second look at the size, then take the slot
AddEventGrow(c) ==
    LET k == call[c]
        res == contextResize((k.fd * 3) \div 2)
    IN /\ Live /\ k.op = "addEvent" /\ k.pc = "grow"
       /\ res.ok
       /\ m_fdContexts' = res.table
       /\ created' = res.created
       /\ call' = [call EXCEPT ![c].pc = "lock", ![c].ctx = res.table.slot[k.fd]]
       /\ UNCHANGED <<do_io, fdctx, epoll, m_pendingEventCount, m_tasks, m_idleThreadCount,
                      tickle, reactor, nextId, life, cancelledInFlight, crashed, otherState>>

\* lines 156-176: lock the FdContext, reject a set bit, epoll_ctl
AddEventLock(c, fail) ==
    LET k == call[c]
        fc == fdctx[k.fd][k.ctx]
        op == IF fc.events # {} THEN "MOD" ELSE "ADD"
        res == EpollCtl(epoll, op, k.fd, fc.events \cup {k.event}, k.ctx, fail)
    IN /\ Live /\ k.op = "addEvent" /\ k.pc = "lock"
       /\ fc.mutex = Nil
       /\ IF AlreadyAdded(fc, k.event)
          THEN /\ call' = [call EXCEPT ![c].pc = "done", ![c].rv = -1]
               /\ UNCHANGED <<fdctx, epoll>>
          ELSE IF res.rt # 0
          THEN /\ call' = [call EXCEPT ![c].pc = "done", ![c].rt = res.rt, ![c].rv = -1]
               /\ UNCHANGED <<fdctx, epoll>>
          ELSE /\ call' = [call EXCEPT ![c].pc = "body"]
               /\ epoll' = res.epoll
               /\ fdctx' = [fdctx EXCEPT ![k.fd][k.ctx].mutex = c]
       /\ UNCHANGED <<do_io, m_fdContexts, created, m_pendingEventCount, m_tasks,
                      m_idleThreadCount, tickle, reactor, nextId, life,
                      cancelledInFlight, crashed, otherState>>

\* lines 178-199: count, bit, EventContext; return 0
AddEventBody(c) ==
    LET k == call[c]
        M == addEventBody(Running(k.fd, k.ctx), k.event, KindOf(nextId), nextId)
    IN /\ Live /\ k.op = "addEvent" /\ k.pc = "body"
       /\ Commit(M, k.fd, k.ctx)
       /\ IF M.crash = NoCrash
          THEN /\ call' = [call EXCEPT ![c].pc = "done", ![c].target = {nextId},
                                       ![c].rv = 0]
               /\ life' = [life EXCEPT ![nextId] = "reg"]
               /\ nextId' = nextId + 1
               /\ cancelledInFlight' =
                     [r \in Reactors |-> cancelledInFlight[r] \ {<<k.fd, k.event>>}]
          ELSE UNCHANGED <<call, life, nextId, cancelledInFlight>>
       /\ UNCHANGED <<do_io, m_fdContexts, created, epoll, m_idleThreadCount, reactor, otherState>>

\* ------------------------------------ delEvent, cancelEvent, cancelAll
\* lines 205-217 / 259-270 / 304-316: look the FdContext up; an fd beyond
\* the table returns false
CallRemove(c, op, fd, event) ==
    /\ Live /\ call[c] = NoCall
    /\ op \in {"delEvent", "cancelEvent", "cancelAll"}
    /\ (op = "cancelAll") = (event = 0)
    /\ call' = [call EXCEPT ![c] =
                  IF m_fdContexts.size > fd
                  THEN [NoCall EXCEPT !.op = op, !.fd = fd, !.event = event,
                                      !.target = Registered(fd, event),
                                      !.pc = "lock", !.ctx = m_fdContexts.slot[fd]]
                  ELSE [NoCall EXCEPT !.op = op, !.fd = fd, !.event = event,
                                      !.target = Registered(fd, event),
                                      !.pc = "done", !.rv = FALSE]]
    /\ UNCHANGED <<do_io, m_fdContexts, created, fdctx, epoll, m_pendingEventCount, m_tasks,
                   m_idleThreadCount, tickle, reactor, nextId, life,
                   cancelledInFlight, crashed, otherState>>

\* lines 223 / 275 / 321: nothing to remove
NotRegistered(op, fc, event) ==
    IF op = "cancelAll" THEN fc.events = {} ELSE event \notin fc.events

\* lines 220-242 / 272-292 / 318-337: lock the FdContext, return false when
\* nothing is registered, epoll_ctl; on its failure `return -1` from a
\* function returning bool
RemoveLock(c, fail) ==
    LET k == call[c]
        fc == fdctx[k.fd][k.ctx]
        new_events == IF k.op = "cancelAll" THEN {} ELSE fc.events \ {k.event}
        op == IF new_events # {} THEN "MOD" ELSE "DEL"
        res == EpollCtl(epoll, op, k.fd, new_events, k.ctx, fail)
    IN /\ Live /\ k.op \in {"delEvent", "cancelEvent", "cancelAll"} /\ k.pc = "lock"
       /\ fc.mutex = Nil
       /\ IF NotRegistered(k.op, fc, k.event)
          THEN /\ call' = [call EXCEPT ![c].pc = "done", ![c].rv = FALSE]
               /\ UNCHANGED <<fdctx, epoll>>
          ELSE IF res.rt # 0
          THEN /\ call' = [call EXCEPT ![c].pc = "done", ![c].rt = res.rt,
                                       ![c].rv = ToBool(-1)]
               /\ UNCHANGED <<fdctx, epoll>>
          ELSE /\ call' = [call EXCEPT ![c].pc = "body"]
               /\ epoll' = res.epoll
               /\ fdctx' = [fdctx EXCEPT ![k.fd][k.ctx].mutex = c]
       /\ UNCHANGED <<do_io, m_fdContexts, created, m_pendingEventCount, m_tasks,
                      m_idleThreadCount, tickle, reactor, nextId, life,
                      cancelledInFlight, crashed, otherState>>

\* history: a cancelEvent that has gone through marks the reports of its
\* event that workers hold unprocessed
MarkCancelled(k) ==
    [r \in Reactors |->
        IF \E rp \in reactor[r].events : rp.fd = k.fd /\ k.event \in rp.events
        THEN cancelledInFlight[r] \cup {<<k.fd, k.event>>}
        ELSE cancelledInFlight[r]]

\* lines 244-252 / 294-298 / 339-353: the rest of the critical section
RemoveBody(c) ==
    LET k == call[c]
        M0 == Running(k.fd, k.ctx)
        M == IF k.op = "delEvent" THEN delEventBody(M0, k.event)
             ELSE IF k.op = "cancelEvent" THEN cancelEventBody(M0, k.event)
             ELSE cancelAllBody(M0)
    IN /\ Live /\ k.op \in {"delEvent", "cancelEvent", "cancelAll"} /\ k.pc = "body"
       /\ Commit(M, k.fd, k.ctx)
       /\ Ended(M0.fc, M.fc, k.op)
       /\ IF M.crash = NoCrash
          THEN call' = [call EXCEPT ![c].pc = "done", ![c].rv = TRUE]
          ELSE UNCHANGED call
       /\ cancelledInFlight' = IF k.op = "cancelEvent" /\ M.crash = NoCrash
                               THEN MarkCancelled(k) ELSE cancelledInFlight
       /\ UNCHANGED <<do_io, m_fdContexts, created, epoll, m_idleThreadCount, reactor, nextId, otherState>>

\* the call returns to its caller
Return(c) ==
    /\ Live /\ call[c].pc = "done"
    /\ call' = [call EXCEPT ![c] = NoCall]
    /\ UNCHANGED <<do_io, m_fdContexts, created, fdctx, epoll, m_pendingEventCount, m_tasks,
                   m_idleThreadCount, tickle, reactor, nextId, life,
                   cancelledInFlight, crashed, otherState>>

\* ------------------------------------------------------------------ idle
\* Scheduler::run: nothing to run, the worker counts itself idle and
\* resumes the idle coroutine
EnterIdle(r) ==
    /\ Live /\ reactor[r].pc = "run"
    /\ reactor' = [reactor EXCEPT ![r].pc = "wait"]
    /\ m_idleThreadCount' = m_idleThreadCount + 1
    /\ UNCHANGED <<do_io, m_fdContexts, created, fdctx, epoll, m_pendingEventCount, m_tasks,
                   tickle, call, nextId, life, cancelledInFlight, crashed, otherState>>

\* lines 400-430: epoll_wait returns some reports (none on timeout); no
\* timer is pending, so listExpiredCb adds nothing
EpollWait(r, fds, pipe) ==
    /\ Live /\ reactor[r].pc = "wait"
    /\ pipe => tickle.edge
    /\ \E out \in [fds -> UNION { ReportsFor(fd) : fd \in fds }] :
          /\ \A fd \in fds : out[fd] \in ReportsFor(fd)
          /\ reactor' = [reactor EXCEPT ![r].pc = "proc",
                            ![r].events = { out[fd] : fd \in fds } \cup
                                          (IF pipe THEN {TickleReport} ELSE {})]
    /\ tickle' = IF pipe THEN [tickle EXCEPT !.edge = FALSE] ELSE tickle
    /\ cancelledInFlight' = [cancelledInFlight EXCEPT ![r] = {}]
    /\ UNCHANGED <<do_io, m_fdContexts, created, fdctx, epoll, m_pendingEventCount, m_tasks,
                   m_idleThreadCount, call, nextId, life, crashed, otherState>>

\* lines 438-444: the self-pipe is read until it is empty
ProcTickle(r) ==
    /\ Live /\ reactor[r].pc = "proc"
    /\ TickleReport \in reactor[r].events
    /\ reactor' = [reactor EXCEPT ![r].events = @ \ {TickleReport}]
    /\ tickle' = Drained
    /\ UNCHANGED <<do_io, m_fdContexts, created, fdctx, epoll, m_pendingEventCount, m_tasks,
                   m_idleThreadCount, call, nextId, life, cancelledInFlight, crashed, otherState>>

\* history: the report of fd has been dealt with
Forget(r, fd) ==
    [cancelledInFlight EXCEPT ![r] = { p \in @ : p[1] # fd }]

\* line 468: none of the events made out is registered
NothingToTrigger(fc, real_events) == fc.events \cap real_events = {}

\* lines 447-484: lock the reported FdContext, compute real_events, skip the
\* report if none of them is registered, epoll_ctl to what is left
ProcLock(r, rp, fail) ==
    LET fc == fdctx[rp.fd][rp.ptr]
        real_events == RealEvents(rp.events, fc)
        left_events == fc.events \ real_events
        op == IF left_events # {} THEN "MOD" ELSE "DEL"
        res == EpollCtl(epoll, op, rp.fd, left_events, rp.ptr, fail)
    IN /\ Live /\ reactor[r].pc = "proc"
       /\ rp \in reactor[r].events /\ rp # TickleReport
       /\ fc.mutex = Nil
       /\ IF NothingToTrigger(fc, real_events) \/ res.rt # 0
          THEN /\ reactor' = [reactor EXCEPT ![r].events = @ \ {rp}]
               /\ cancelledInFlight' = Forget(r, rp.fd)
               /\ UNCHANGED <<fdctx, epoll>>
          ELSE /\ reactor' = [reactor EXCEPT ![r].events = @ \ {rp}, ![r].pc = "trigger",
                                 ![r].cur = [fd |-> rp.fd, ptr |-> rp.ptr,
                                             real_events |-> real_events]]
               /\ epoll' = res.epoll
               /\ fdctx' = [fdctx EXCEPT ![rp.fd][rp.ptr].mutex = r]
               /\ UNCHANGED cancelledInFlight
       /\ UNCHANGED <<do_io, m_fdContexts, created, m_pendingEventCount, m_tasks,
                      m_idleThreadCount, tickle, call, nextId, life, crashed, otherState>>

\* lines 486-496: trigger READ and WRITE as real_events says, counting down
ProcTrigger(r) ==
    LET cur == reactor[r].cur
        M0 == Running(cur.fd, cur.ptr)
        M == idleTrigger(M0, cur.real_events)
    IN /\ Live /\ reactor[r].pc = "trigger"
       /\ Commit(M, cur.fd, cur.ptr)
       /\ Ended(M0.fc, M.fc, "idle")
       /\ IF M.crash = NoCrash
          THEN /\ reactor' = [reactor EXCEPT ![r].pc = "proc", ![r].cur = NoReport]
               /\ cancelledInFlight' = Forget(r, cur.fd)
          ELSE UNCHANGED <<reactor, cancelledInFlight>>
       /\ UNCHANGED <<do_io, m_fdContexts, created, epoll, m_idleThreadCount, call, nextId, otherState>>

\* line 500 and Scheduler::run: every report handled, the idle coroutine
\* yields and the worker counts itself out of the idle ones
Yield(r) ==
    /\ Live /\ reactor[r].pc = "proc" /\ reactor[r].events = {}
    /\ reactor' = [reactor EXCEPT ![r].pc = "run"]
    /\ m_idleThreadCount' = fetch_sub(m_idleThreadCount)
    /\ UNCHANGED <<do_io, m_fdContexts, created, fdctx, epoll, m_pendingEventCount, m_tasks,
                   tickle, call, nextId, life, cancelledInFlight, crashed, otherState>>

\* ------------------------------------------------------------------ Next
\* one caller thread, one worker, a descriptor inside the initial table and
\* one beyond it
Next ==
    \/ \E fd \in {5, 33}, event \in Event : CallAddEvent("c1", fd, event)
    \/ AddEventGrow("c1")
    \/ \E fail \in BOOLEAN : AddEventLock("c1", fail)
    \/ AddEventBody("c1")
    \/ \E fd \in {5, 33}, event \in Event, op \in {"delEvent", "cancelEvent"} :
          CallRemove("c1", op, fd, event)
    \/ \E fd \in {5, 33} : CallRemove("c1", "cancelAll", fd, 0)
    \/ \E fail \in BOOLEAN : RemoveLock("c1", fail)
    \/ RemoveBody("c1")
    \/ Return("c1")
    \/ EnterIdle("r1")
    \/ \E fds \in SUBSET {5, 33}, pipe \in BOOLEAN : EpollWait("r1", fds, pipe)
    \/ ProcTickle("r1")
    \/ \E fail \in BOOLEAN : \E rp \in reactor["r1"].events : ProcLock("r1", rp, fail)
    \/ ProcTrigger("r1")
    \/ Yield("r1")

Spec == Init /\ [][Next]_vars

\* two caller threads and no worker on two descriptors beyond the initial
\* table: the calls race on the table
NextRace ==
    \/ \E c \in Callers, fd \in {33, 50}, event \in Event : CallAddEvent(c, fd, event)
    \/ \E c \in Callers : AddEventGrow(c)
    \/ \E c \in Callers, fail \in BOOLEAN : AddEventLock(c, fail)
    \/ \E c \in Callers : AddEventBody(c)
    \/ \E c \in Callers, fd \in {33, 50}, event \in Event,
          op \in {"delEvent", "cancelEvent"} : CallRemove(c, op, fd, event)
    \/ \E c \in Callers, fd \in {33, 50} : CallRemove(c, "cancelAll", fd, 0)
    \/ \E c \in Callers, fail \in BOOLEAN : RemoveLock(c, fail)
    \/ \E c \in Callers : RemoveBody(c)
    \/ \E c \in Callers : Return(c)

SpecRace == Init /\ [][NextRace]_vars

\* one caller thread and two workers on one descriptor: a report held by one
\* worker goes stale through the other
NextReactors ==
    \/ \E event \in Event : CallAddEvent("c1", 5, event)
    \/ \E fail \in BOOLEAN : AddEventLock("c1", fail)
    \/ AddEventBody("c1")
    \/ \E event \in Event, op \in {"delEvent", "cancelEvent"} :
          CallRemove("c1", op, 5, event)
    \/ CallRemove("c1", "cancelAll", 5, 0)
    \/ \E fail \in BOOLEAN : RemoveLock("c1", fail)
    \/ RemoveBody("c1")
    \/ Return("c1")
    \/ \E r \in Reactors : EnterIdle(r)
    \/ \E r \in Reactors, fds \in SUBSET {5}, pipe \in BOOLEAN : EpollWait(r, fds, pipe)
    \/ \E r \in Reactors : ProcTickle(r)
    \/ \E r \in Reactors, fail \in BOOLEAN :
          \E rp \in reactor[r].events : ProcLock(r, rp, fail)
    \/ \E r \in Reactors : ProcTrigger(r)
    \/ \E r \in Reactors : Yield(r)

SpecReactors == Init /\ [][NextReactors]_vars

TypeOK ==
    /\ m_pendingEventCount \in 0..MaxReg
    /\ m_idleThreadCount \in 0..Cardinality(Reactors)
    /\ Len(m_tasks) <= MaxReg

\* =================================================================
\* Scheduler::run and IOManager::idle
\* =================================================================
\* a test of the queue that never finds it empty (used to test the
\* properties)
NeverEmpty(tasks) == FALSE

\* m_tasks.empty()
IsEmpty(tasks) == tasks = <<>>

\* scheduler.h lines 37-52, under m_mutex: need_tickle = m_tasks.empty(),
\* the task is appended (a task built around a new fiber or around a
\* callback, for thread `thread`); a call with need_tickle unset is over
SchedulePush(p, kind, thread) ==
    LET n == nextTask
        task == IF kind = "fiber" THEN [fiber |-> n, cb |-> 0, thread |-> thread]
                ELSE [fiber |-> 0, cb |-> n, thread |-> thread]
        need_tickle == IsEmpty(m_tasks)
    IN /\ Live /\ producer[p].pc = "none"
       /\ n <= MaxTask
       /\ fiber' = IF kind = "fiber"
                   THEN [fiber EXCEPT ![TaskFiber(n)] = NewFiber(TaskFiber(n), TaskCb(n), TRUE)]
                   ELSE fiber
       /\ m_tasks' = Append(m_tasks, task)
       /\ nextTask' = n + 1
       /\ producer' = [producer EXCEPT ![p] =
                         IF need_tickle
                         THEN [pc |-> "tickle", need_tickle |-> TRUE, task |-> n]
                         ELSE NoSchedule]
       /\ tickles' = [tickles EXCEPT ![n].wasEmpty = need_tickle]
       /\ UNCHANGED <<do_io, ioState, timerState, m_idleThreadCount, tickle, crashed, t_fiber,
                      t_thread_fiber, t_scheduler_fiber, exec, local,
                      m_activeThreadCount, m_stopping, stopCall, ran>>

\* the virtual tickle(): IOManager::tickle when the scheduler is an IOManager
\* (iom), the empty Scheduler::tickle otherwise
tickleOf(iom, tk) == IF iom THEN Tickle(tk) ELSE tk

\* scheduler.h lines 55-58, after the mutex is released: tickle()
ScheduleTickle(p, iom) ==
    /\ Live /\ producer[p].pc = "tickle"
    /\ tickle' = tickleOf(iom, tickle)
    /\ tickles' = [tickles EXCEPT ![producer[p].task].calls = @ + 1]
    /\ producer' = [producer EXCEPT ![p] = NoSchedule]
    /\ UNCHANGED <<do_io, ioState, timerState, m_tasks, m_idleThreadCount, crashed, fiberState, local,
                   m_activeThreadCount, m_stopping, stopCall, nextTask, ran>>

\* positions of the queue whose task thread th may run
Mine(tasks, th) == { i \in 1..Len(tasks) : tasks[i].thread \in {-1, th} }

\* the last position of a non-empty set of positions (used to test the
\* properties)
Last(S) == CHOOSE i \in S : \A j \in S : j <= i

\* the first position of a non-empty set of positions
First(S) == CHOOSE i \in S : \A j \in S : i <= j

\* an extraction that leaves the task in the queue (used to test the
\* properties)
KeepTask(tasks, i) == tasks

\* m_tasks.erase(it)
Erase(tasks, i) == SubSeq(tasks, 1, i - 1) \o SubSeq(tasks, i + 1, Len(tasks))

\* scheduler.cpp lines 105-129, under m_mutex: the scan skips the tasks bound
\* to other threads (tickle_me = true for each), copies the first task it may
\* run, erases it and counts the thread active.  `it` is compared with
\* m_tasks.end() after erase(it) invalidated it: the outcome `later` of that
\* comparison is not defined
Fetch(th, later) ==
    LET mine == Mine(m_tasks, th)
        found == mine # {}
        it == IF found THEN First(mine) ELSE Len(m_tasks) + 1
        tickle_me == it > 1 \/ (found /\ later)
    IN /\ Live /\ exec[th].pc = "loop"
       /\ local' = [local EXCEPT ![th] =
                      [task |-> IF found THEN m_tasks[it] ELSE NoTask,
                       tickle_me |-> tickle_me]]
       /\ m_tasks' = IF found THEN Erase(m_tasks, it) ELSE m_tasks
       /\ m_activeThreadCount' = IF found THEN m_activeThreadCount + 1
                                 ELSE m_activeThreadCount
       /\ exec' = [exec EXCEPT ![th].pc = IF tickle_me THEN "tickle" ELSE "dispatch"]
       /\ UNCHANGED <<do_io, ioState, timerState, m_idleThreadCount, tickle, crashed, fiber, t_fiber,
                      t_thread_fiber, t_scheduler_fiber, m_stopping, stopCall, producer,
                      nextTask, ran, tickles>>

\* lines 131-134: if(tickle_me) tickle()
RunTickle(th, iom) ==
    /\ Live /\ exec[th].pc = "tickle"
    /\ tickle' = tickleOf(iom, tickle)
    /\ exec' = [exec EXCEPT ![th].pc = "dispatch"]
    /\ UNCHANGED <<do_io, ioState, timerState, m_tasks, m_idleThreadCount, crashed, fiber, t_fiber,
                   t_thread_fiber, t_scheduler_fiber, schedState>>

\* a lock of the fiber's mutex that never waits (used to test the properties)
NeverLocked(f) == TRUE

\* std::lock_guard<std::mutex> lock(task.fiber->m_mutex) gets the mutex: no
\* thread holds it
Unlocked(f) == fiber[f].m_mutex = {}

\* lines 137-145 and 150-156: the task's fiber (a new one around a callback)
\* is locked and, unless it is TERM, resumed
Dispatch(th) ==
    LET task == local[th].task
        f == FiberOf(task)
        F0 == [FiberLayer EXCEPT !.fiber[f] =
                  IF task.cb # 0 THEN NewFiber(f, TaskCb(task.cb), TRUE) ELSE @]
        F1 == [F0 EXCEPT !.fiber[f].m_mutex = {th}]
        F2 == IF F1.fiber[f].m_state # "TERM"
              THEN resume(F1, th, f, "resumed")
              ELSE [F1 EXCEPT !.exec[th].pc = "resumed"]
    IN /\ Live /\ exec[th].pc = "dispatch"
       /\ task # NoTask
       /\ Unlocked(f)
       /\ CommitFiber(F2)
       /\ UNCHANGED <<do_io, ioState, timerState, m_tasks, m_idleThreadCount, tickle, t_thread_fiber,
                      t_scheduler_fiber, schedState>>

\* lines 147-148 and 157-158: the fiber's mutex is released, the thread
\* counts itself out of the active ones, task.reset()
Resumed(th) ==
    LET f == FiberOf(local[th].task)
    IN /\ Live /\ exec[th].pc = "resumed"
       /\ fiber' = [fiber EXCEPT ![f].m_mutex = {}]
       /\ m_activeThreadCount' = fetch_sub(m_activeThreadCount)
       /\ local' = [local EXCEPT ![th].task = NoTask]
       /\ exec' = [exec EXCEPT ![th].pc = "loop"]
       /\ UNCHANGED <<do_io, ioState, timerState, m_tasks, m_idleThreadCount, tickle, crashed, t_fiber,
                      t_thread_fiber, t_scheduler_fiber, m_stopping, stopCall, producer,
                      nextTask, ran, tickles>>

\* Fiber::MainFunc of a task's fiber: curr->m_cb() is entered
RunEntry(th) ==
    LET n == TaskRunBy(exec[th].who)
    IN /\ Live /\ exec[th].pc = "MainFunc" /\ n # 0
       /\ ran' = [ran EXCEPT ![n] = Append(@, th)]
       /\ exec' = [exec EXCEPT ![th].pc = "m_cb"]
       /\ UNCHANGED <<do_io, ioState, timerState, m_tasks, m_idleThreadCount, tickle, crashed, fiber,
                      t_fiber, t_thread_fiber, t_scheduler_fiber, local,
                      m_activeThreadCount, m_stopping, stopCall, producer, nextTask, tickles>>

\* Fiber::MainFunc: m_cb() returned
MainFuncReturn(th) ==
    /\ Live /\ exec[th].pc = "m_cb"
    /\ CommitFiber(MainFuncEnd(FiberLayer, th))
    /\ UNCHANGED <<do_io, ioState, timerState, m_tasks, m_idleThreadCount, tickle, t_thread_fiber,
                   t_scheduler_fiber, schedState>>

\* lines 161-177: no task: the run loop ends when the idle fiber is TERM,
\* otherwise the thread counts itself idle and resumes the idle fiber
RunIdle(th) ==
    LET F == resume(FiberLayer, th, IdleFiber(th), "idled")
    IN /\ Live /\ exec[th].pc = "dispatch"
       /\ local[th].task = NoTask
       /\ IF fiber[IdleFiber(th)].m_state = "TERM"
          THEN /\ exec' = [exec EXCEPT ![th].pc = "exit"]
               /\ UNCHANGED <<fiber, t_fiber, crashed, m_idleThreadCount>>
          ELSE /\ m_idleThreadCount' = m_idleThreadCount + 1
               /\ CommitFiber(F)
       /\ UNCHANGED <<do_io, ioState, timerState, m_tasks, tickle, t_thread_fiber, t_scheduler_fiber,
                      schedState>>

\* line 177: back from the idle fiber
Idled(th) ==
    /\ Live /\ exec[th].pc = "idled"
    /\ m_idleThreadCount' = fetch_sub(m_idleThreadCount)
    /\ exec' = [exec EXCEPT ![th].pc = "loop"]
    /\ UNCHANGED <<do_io, ioState, timerState, m_tasks, tickle, crashed, fiber, t_fiber, t_thread_fiber,
                   t_scheduler_fiber, schedState>>

\* Scheduler::stopping, under m_mutex
SchedulerStopping == m_stopping /\ m_tasks = <<>> /\ m_activeThreadCount = 0

\* Fiber::MainFunc: the fiber whose entry returned yields
TermYield(th) ==
    /\ Live /\ exec[th].pc = "TERM"
    /\ CommitFiber(MainFuncYield(FiberLayer, th))
    /\ UNCHANGED <<do_io, ioState, timerState, m_tasks, m_idleThreadCount, tickle,
                   t_thread_fiber, t_scheduler_fiber, schedState>>

\* Scheduler::idle (scheduler.cpp lines 239-247), the idle coroutine of a
\* plain Scheduler: it returns when stopping() holds, and otherwise sleeps a
\* second and yields
SchedulerIdle(th) ==
    /\ Live /\ InIdle(th, {"MainFunc", "idle"})
    /\ IF SchedulerStopping
       THEN CommitFiber(MainFuncEnd(FiberLayer, th))
       ELSE CommitFiber(yield(FiberLayer, th, t_fiber[th], "idle"))
    /\ UNCHANGED <<do_io, ioState, m_tasks, m_idleThreadCount, tickle, t_thread_fiber,
                   t_scheduler_fiber, schedState, timerState>>

\* IOManager::stopping, first conjunct: timeout = getNextTimer() is ~0ull
StoppingTimer(th) ==
    LET r == getNextTimer(TimerLayer, now)
    IN /\ Live /\ InIdle(th, {"MainFunc", "idle"})
       /\ m_tickled' = r.T.m_tickled
       /\ exec' = [exec EXCEPT ![th].pc = IF r.rv = ALL_ONES THEN "stopping_pending"
                                          ELSE "getNextTimer"]
       /\ UNCHANGED <<do_io, ioState, m_tasks, m_idleThreadCount, tickle, crashed, fiber,
                      t_fiber, t_thread_fiber, t_scheduler_fiber, schedState,
                      timer, m_timers, m_previouseTime, now, nextTimer, idle, timerCall>>

\* IOManager::stopping, second conjunct: m_pendingEventCount == 0
StoppingPending(th) ==
    /\ Live /\ InIdle(th, {"stopping_pending"})
    /\ exec' = [exec EXCEPT ![th].pc = IF m_pendingEventCount = 0 THEN "stopping_sched"
                                       ELSE "getNextTimer"]
    /\ UNCHANGED <<do_io, ioState, m_tasks, m_idleThreadCount, tickle, crashed, fiber,
                   t_fiber, t_thread_fiber, t_scheduler_fiber, schedState, timerState>>

\* IOManager::stopping, third conjunct, and lines 394-398 of idle: when
\* stopping() holds the loop is left, idle() returns into MainFunc, the idle
\* fiber is TERM and yields
StoppingSched(th) ==
    /\ Live /\ InIdle(th, {"stopping_sched"})
    /\ IF SchedulerStopping
       THEN CommitFiber(MainFuncEnd(FiberLayer, th))
       ELSE /\ exec' = [exec EXCEPT ![th].pc = "getNextTimer"]
            /\ UNCHANGED <<fiber, t_fiber, crashed>>
    /\ UNCHANGED <<do_io, ioState, m_tasks, m_idleThreadCount, tickle, t_thread_fiber,
                   t_scheduler_fiber, schedState, timerState>>

\* lines 404-409: next_timeout = min(getNextTimer(), MAX_TIMEOUT); the thread
\* blocks in epoll_wait until the self-pipe is readable or the timeout is over
IdleGetNextTimer(th) ==
    LET r == getNextTimer(TimerLayer, now)
        next_timeout == Min64(r.rv, MAX_TIMEOUT)
    IN /\ Live /\ InIdle(th, {"getNextTimer"})
       /\ m_tickled' = r.T.m_tickled
       /\ idle' = [idle EXCEPT ![th].deadline = now + milliseconds(next_timeout)]
       /\ exec' = [exec EXCEPT ![th].pc = "epoll_wait"]
       /\ UNCHANGED <<do_io, ioState, m_tasks, m_idleThreadCount, tickle, crashed, fiber,
                      t_fiber, t_thread_fiber, t_scheduler_fiber, schedState,
                      timer, m_timers, m_previouseTime, now, nextTimer, timerCall>>

\* an epoll_wait whose timeout never ends (used to test the properties)
NeverTimedOut(th) == FALSE

\* the timeout handed to epoll_wait by thread th is over
TimedOut(th) == now >= idle[th].deadline

\* lines 409-417: epoll_wait returns, with the report of the self-pipe (the edge
\* is consumed) or on the timeout
EpollReturn(th, pipe) ==
    /\ Live /\ InIdle(th, {"epoll_wait"})
    /\ IF pipe THEN tickle.edge ELSE TimedOut(th)
    /\ tickle' = IF pipe THEN [tickle EXCEPT !.edge = FALSE] ELSE tickle
    /\ idle' = [idle EXCEPT ![th].pipe = pipe]
    /\ exec' = [exec EXCEPT ![th].pc = "listExpiredCb"]
    /\ UNCHANGED <<do_io, ioState, m_tasks, m_idleThreadCount, crashed, fiber, t_fiber,
                   t_thread_fiber, t_scheduler_fiber, schedState, timer, m_timers,
                   m_tickled, m_previouseTime, now, nextTimer, timerCall>>

\* lines 421-422: listExpiredCb(cbs) under the timer lock
ListExpired(th) ==
    LET r == listExpiredCb(TimerLayer, now)
    IN /\ Live /\ InIdle(th, {"listExpiredCb"})
       /\ ~r.diverged
       /\ timer' = r.T.timer
       /\ m_timers' = r.T.m_timers
       /\ m_previouseTime' = now
       /\ idle' = [idle EXCEPT ![th].cbs = r.cbs]
       /\ exec' = [exec EXCEPT ![th].pc = "events"]
       /\ UNCHANGED <<do_io, ioState, m_tasks, m_idleThreadCount, tickle, crashed, fiber,
                      t_fiber, t_thread_fiber, t_scheduler_fiber, schedState,
                      m_tickled, now, nextTimer, timerCall>>

\* lines 421-422, listExpiredCb(cbs) when the loop of listExpiredCb does not
\* end (timer.cpp lines 225-241): the state after MaxDrain rounds; the thread
\* stays in the loop, the write lock of the timers held
ListExpiredLoops(th) ==
    LET r == listExpiredCb(TimerLayer, now)
    IN /\ Live /\ InIdle(th, {"listExpiredCb"})
       /\ r.diverged
       /\ timer' = r.T.timer
       /\ m_timers' = r.T.m_timers
       /\ m_previouseTime' = now
       /\ idle' = [idle EXCEPT ![th].cbs = r.cbs]
       /\ exec' = [exec EXCEPT ![th].pc = "listExpiredCb_loop"]
       /\ UNCHANGED <<do_io, ioState, m_tasks, m_idleThreadCount, tickle, crashed, fiber,
                      t_fiber, t_thread_fiber, t_scheduler_fiber, schedState,
                      m_tickled, now, nextTimer, timerCall>>

\* no thread is inside the loop of listExpiredCb with the write lock held
TimerLockFree == \A th \in Threads : exec[th].pc # "listExpiredCb_loop"

\* lines 423-430: scheduleLock(cb) for the next collected callback
IdleSchedule(th) ==
    LET cb == Head(idle[th].cbs)
        M == scheduleLock([tasks |-> m_tasks, tk |-> tickle],
                          [fiber |-> 0, cb |-> cb, thread |-> -1])
    IN /\ Live /\ InIdle(th, {"events"})
       /\ idle[th].cbs # <<>>
       /\ m_tasks' = M.tasks
       /\ tickle' = M.tk
       /\ idle' = [idle EXCEPT ![th].cbs = Tail(@)]
       /\ UNCHANGED <<do_io, ioState, m_idleThreadCount, crashed, fiberState, schedState,
                      timer, m_timers, m_tickled, m_previouseTime, now, nextTimer, timerCall>>

\* lines 433-497: the reports are handled (the self-pipe is read until it is
\* empty) and the idle coroutine yields
IdleYield(th) ==
    /\ Live /\ InIdle(th, {"events"})
    /\ idle[th].cbs = <<>>
    /\ tickle' = IF idle[th].pipe THEN Drained ELSE tickle
    /\ idle' = [idle EXCEPT ![th] = NoIdle]
    /\ CommitFiber(yield(FiberLayer, th, t_fiber[th], "idle"))
    /\ UNCHANGED <<do_io, ioState, m_tasks, m_idleThreadCount, t_thread_fiber,
                   t_scheduler_fiber, schedState, timer, m_timers, m_tickled,
                   m_previouseTime, now, nextTimer, timerCall>>

\* time passes: a millisecond
Tick ==
    /\ Live /\ now + milliseconds(1) <= milliseconds(MaxTime)
    /\ now' = now + milliseconds(1)
    /\ UNCHANGED <<do_io, ioState, m_tasks, m_idleThreadCount, tickle, crashed, fiberState,
                   schedState, timer, m_timers, m_tickled, m_previouseTime,
                   nextTimer, idle, timerCall>>

\* the system clock is set back from a late reading to 0
ClockSetBack ==
    /\ Live /\ now >= Late
    /\ now' = 0
    /\ UNCHANGED <<do_io, ioState, m_tasks, m_idleThreadCount, tickle, crashed, fiberState,
                   schedState, timer, m_timers, m_tickled, m_previouseTime,
                   nextTimer, idle, timerCall>>

\* time passes: a tick of the system clock
Tock ==
    /\ Live /\ now < milliseconds(MaxTime)
    /\ now' = now + 1
    /\ UNCHANGED <<do_io, ioState, m_tasks, m_idleThreadCount, tickle, crashed, fiberState,
                   schedState, timer, m_timers, m_tickled, m_previouseTime,
                   nextTimer, idle, timerCall>>

\* ------------------------------------------------------------ timer calls
\* the callback of timer t: a closure of its own
TimerCb(t) == MaxTask + t

\* TimerManager::addTimer(ms, cb, recurring) on thread th: the Timer is
\* built and inserted under the write lock; a call with at_front set goes
\* on to onTimerInsertedAtFront
AddTimer(th, ms, cb, recurring) ==
    LET t == nextTimer
        T0 == [TimerLayer EXCEPT !.timer[t] = NewTimer(ms, cb, recurring)]
        r == addTimer(T0, t)
    IN /\ Live /\ timerCall[th].pc = "none"
       /\ t <= MaxTimer
       /\ timer' = r.T.timer
       /\ m_timers' = r.T.m_timers
       /\ m_tickled' = r.T.m_tickled
       /\ nextTimer' = t + 1
       /\ timerCall' = [timerCall EXCEPT ![th] =
                          [pc |-> IF r.at_front THEN "onTimerInsertedAtFront" ELSE "none",
                           op |-> "addTimer", t |-> t, rv |-> r.at_front]]
       /\ UNCHANGED <<do_io, ioState, m_tasks, m_idleThreadCount, tickle, crashed, fiberState,
                      schedState, m_previouseTime, now, idle>>

\* IOManager::onTimerInsertedAtFront, after the lock is released: tickle()
FrontInserted(th) ==
    /\ Live /\ timerCall[th].pc = "onTimerInsertedAtFront"
    /\ tickle' = Tickle(tickle)
    /\ timerCall' = [timerCall EXCEPT ![th].pc = "none"]
    /\ UNCHANGED <<do_io, ioState, m_tasks, m_idleThreadCount, crashed, fiberState,
                   schedState, timer, m_timers, m_tickled, m_previouseTime, now,
                   nextTimer, idle>>

\* Timer::cancel on timer t, called on thread th
Cancel(th, t) ==
    LET r == cancel(TimerLayer, t)
    IN /\ Live /\ timerCall[th].pc = "none"
       /\ t < nextTimer
       /\ timer' = r.T.timer
       /\ m_timers' = r.T.m_timers
       /\ timerCall' = [timerCall EXCEPT ![th] =
                          [pc |-> "none", op |-> "cancel", t |-> t, rv |-> r.rv]]
       /\ UNCHANGED <<do_io, ioState, m_tasks, m_idleThreadCount, tickle, crashed, fiberState,
                      schedState, m_tickled, m_previouseTime, now, nextTimer, idle>>

\* TimerManager::getNextTimer called on thread th
GetNextTimer(th) ==
    LET r == getNextTimer(TimerLayer, now)
    IN /\ Live /\ timerCall[th].pc = "none"
       /\ m_tickled' = r.T.m_tickled
       /\ timerCall' = [timerCall EXCEPT ![th] =
                          [pc |-> "none", op |-> "getNextTimer", t |-> 0, rv |-> r.rv]]
       /\ UNCHANGED <<do_io, ioState, m_tasks, m_idleThreadCount, tickle, crashed, fiberState,
                      schedState, timer, m_timers, m_previouseTime, now, nextTimer, idle>>

\* ------------------------------------------------------------ sleep
\* the callback of the timer that sleep adds in task n:
\* [fiber, iom](){ iom->scheduleLock(fiber, -1); }
WakeCb(n) == MaxTask + n

\* sleep(seconds) with the hook enabled, called by the task running on
\* worker th: iom->addTimer(seconds*1000, callback), the part under the
\* timer lock
Sleep(th, seconds) ==
    LET n == TaskRunBy(exec[th].who)
        t == nextTimer
        T0 == [TimerLayer EXCEPT !.timer[t] = NewTimer(seconds, WakeCb(n), FALSE)]
        r == addTimer(T0, t)
    IN /\ Live /\ exec[th].pc = "m_cb" /\ n \in Tasks
       /\ t <= MaxTimer /\ now + milliseconds(seconds) <= milliseconds(MaxTime)
       /\ timer' = r.T.timer
       /\ m_timers' = r.T.m_timers
       /\ m_tickled' = r.T.m_tickled
       /\ nextTimer' = t + 1
       /\ timerCall' = [timerCall EXCEPT ![th] =
                          [pc |-> IF r.at_front THEN "onTimerInsertedAtFront" ELSE "none",
                           op |-> "addTimer", t |-> t, rv |-> r.at_front]]
       /\ exec' = [exec EXCEPT ![th].pc = "yield"]
       /\ UNCHANGED <<do_io, ioState, m_tasks, m_idleThreadCount, tickle, crashed, fiber, t_fiber,
                      t_thread_fiber, t_scheduler_fiber, schedState, m_previouseTime,
                      now, idle>>

\* sleep: fiber->yield() after addTimer returned
SleepYield(th) ==
    /\ Live /\ exec[th].pc = "yield" /\ timerCall[th].pc = "none"
    /\ CommitFiber(yield(FiberLayer, th, t_fiber[th], "slept"))
    /\ UNCHANGED <<do_io, ioState, m_tasks, m_idleThreadCount, tickle, t_thread_fiber,
                   t_scheduler_fiber, schedState, timerState>>

\* sleep returns 0 into the task's closure
SleepReturn(th) ==
    /\ Live /\ exec[th].pc = "slept"
    /\ exec' = [exec EXCEPT ![th].pc = "m_cb"]
    /\ UNCHANGED <<do_io, ioState, m_tasks, m_idleThreadCount, tickle, crashed, fiber, t_fiber,
                   t_thread_fiber, t_scheduler_fiber, schedState, timerState>>

\* the callback of a sleep timer, run as a task: scheduleLock(fiber, -1) for
\* the fiber that sleeps, and the closure returns
Wake(th) ==
    LET n == TaskRunBy(exec[th].who)
        M == scheduleLock([tasks |-> m_tasks, tk |-> tickle],
                          [fiber |-> n - MaxTask, cb |-> 0, thread |-> -1])
    IN /\ Live /\ exec[th].pc = "m_cb" /\ n > MaxTask
       /\ m_tasks' = M.tasks
       /\ tickle' = M.tk
       /\ CommitFiber(MainFuncEnd(FiberLayer, th))
       /\ UNCHANGED <<do_io, ioState, m_idleThreadCount, t_thread_fiber, t_scheduler_fiber,
                      schedState, timerState>>

\* ------------------------------------------------------------ do_io
\* the descriptor the hooked call is made on: a socket in blocking mode with
\* a receive timeout, on which nothing ever arrives
IoFd == 5

\* the callback of the condition timer do_io adds in task n (hook.cpp lines
\* 148-159), bound to OnTimer with the weak pointer to tinfo
TimeoutCb(n) == MaxTask + n

\* do_io, lines 129-160, in the task running on worker th: fun() fails with
\* EAGAIN and addConditionTimer(timeout, cb, winfo) adds the timer, the part
\* under the timer lock
DoIoAddTimer(th, timeout) ==
    LET n == TaskRunBy(exec[th].who)
        t == nextTimer
        T0 == [TimerLayer EXCEPT !.timer[t] = NewTimer(timeout, TimeoutCb(n), FALSE)]
        r == addTimer(T0, t)
    IN /\ Live /\ exec[th].pc = "m_cb" /\ n \in Tasks
       /\ do_io[n].n = 0
       /\ t <= MaxTimer /\ now + milliseconds(timeout) <= milliseconds(MaxTime)
       /\ timer' = r.T.timer
       /\ m_timers' = r.T.m_timers
       /\ m_tickled' = r.T.m_tickled
       /\ nextTimer' = t + 1
       /\ timerCall' = [timerCall EXCEPT ![th] =
                          [pc |-> IF r.at_front THEN "onTimerInsertedAtFront" ELSE "none",
                           op |-> "addTimer", t |-> t, rv |-> r.at_front]]
       /\ do_io' = [do_io EXCEPT ![n].timer = t]
       /\ exec' = [exec EXCEPT ![th].pc = "addEvent"]
       /\ UNCHANGED <<ioState, m_tasks, m_idleThreadCount, tickle, crashed, fiber, t_fiber,
                      t_thread_fiber, t_scheduler_fiber, schedState, m_previouseTime,
                      now, idle>>

\* do_io, lines 163-172: iom->addEvent(fd, event) for the calling coroutine,
\* under the mutex of the FdContext; when it fails the timer is cancelled
\* and do_io returns -1
DoIoAddEvent(th) ==
    LET n == TaskRunBy(exec[th].who)
        gen == m_fdContexts.slot[IoFd]
        fc == fdctx[IoFd][gen]
        op == IF fc.events # {} THEN "MOD" ELSE "ADD"
        res == EpollCtl(epoll, op, IoFd, fc.events \cup {READ}, gen, FALSE)
        M == addEventBody(Running(IoFd, gen), READ, "fiber", n)
        c == cancel(TimerLayer, do_io[n].timer)
    IN /\ Live /\ exec[th].pc = "addEvent" /\ timerCall[th].pc = "none"
       /\ fc.mutex = Nil
       /\ IF AlreadyAdded(fc, READ) \/ res.rt # 0
          THEN /\ timer' = c.T.timer
               /\ m_timers' = c.T.m_timers
               /\ do_io' = [do_io EXCEPT ![n].n = -1]
               /\ exec' = [exec EXCEPT ![th].pc = "m_cb"]
               /\ UNCHANGED <<fdctx, epoll, m_tasks, tickle, m_pendingEventCount, crashed>>
          ELSE /\ Commit(M, IoFd, gen)
               /\ epoll' = res.epoll
               /\ exec' = [exec EXCEPT ![th].pc = "io_yield"]
               /\ UNCHANGED <<timer, m_timers, do_io>>
       /\ UNCHANGED <<m_fdContexts, created, call, reactor, nextId, life,
                      cancelledInFlight, m_idleThreadCount, fiber, t_fiber,
                      t_thread_fiber, t_scheduler_fiber, schedState, m_tickled,
                      m_previouseTime, now, nextTimer, idle, timerCall>>

\* do_io, line 176: Fiber::GetThis()->yield()
DoIoYield(th) ==
    /\ Live /\ exec[th].pc = "io_yield"
    /\ CommitFiber(yield(FiberLayer, th, t_fiber[th], "io_resumed"))
    /\ UNCHANGED <<do_io, ioState, m_tasks, m_idleThreadCount, tickle, t_thread_fiber,
                   t_scheduler_fiber, schedState, timerState>>

\* do_io, lines 179-192, the coroutine resumed: timer->cancel(); when
\* tinfo->cancelled is ETIMEDOUT, errno = ETIMEDOUT and -1 is returned,
\* otherwise goto retry
DoIoResumed(th) ==
    LET n == TaskRunBy(exec[th].who)
        c == cancel(TimerLayer, do_io[n].timer)
    IN /\ Live /\ exec[th].pc = "io_resumed"
       /\ timer' = c.T.timer
       /\ m_timers' = c.T.m_timers
       /\ do_io' = [do_io EXCEPT ![n] =
                      IF @.cancelled = ETIMEDOUT
                      THEN [@ EXCEPT !.n = -1, !.errno = ETIMEDOUT]
                      ELSE [@ EXCEPT !.timer = 0]]
       /\ exec' = [exec EXCEPT ![th].pc = "m_cb"]
       /\ UNCHANGED <<ioState, m_tasks, m_idleThreadCount, tickle, crashed, fiber, t_fiber,
                      t_thread_fiber, t_scheduler_fiber, schedState, m_tickled,
                      m_previouseTime, now, nextTimer, idle, timerCall>>

\* OnTimer (timer.cpp lines 167-174) and the callback of do_io (hook.cpp
\* lines 150-155), run as a task on worker th: nothing is done when tinfo is
\* gone (do_io has returned) or tinfo->cancelled is set; otherwise
\* tinfo->cancelled = ETIMEDOUT
OnTimer(th) ==
    LET cb == TaskRunBy(exec[th].who)
        n == cb - MaxTask
    IN /\ Live /\ exec[th].pc = "m_cb" /\ cb > MaxTask
       /\ IF do_io[n].n # 0 \/ do_io[n].cancelled # 0
          THEN /\ exec' = [exec EXCEPT ![th].pc = "return"]
               /\ UNCHANGED do_io
          ELSE /\ do_io' = [do_io EXCEPT ![n].cancelled = ETIMEDOUT]
               /\ exec' = [exec EXCEPT ![th].pc = "cancelEvent"]
       /\ UNCHANGED <<ioState, m_tasks, m_idleThreadCount, tickle, crashed, fiber, t_fiber,
                      t_thread_fiber, t_scheduler_fiber, schedState, timerState>>

\* the callback of do_io, line 158: iom->cancelEvent(fd, event), under the
\* mutex of the FdContext: false when the event is not registered, otherwise
\* the event is removed and its waiter submitted
OnTimerCancelEvent(th) ==
    LET gen == m_fdContexts.slot[IoFd]
        fc == fdctx[IoFd][gen]
        new_events == fc.events \ {READ}
        op == IF new_events # {} THEN "MOD" ELSE "DEL"
        res == EpollCtl(epoll, op, IoFd, new_events, gen, FALSE)
        M == cancelEventBody(Running(IoFd, gen), READ)
    IN /\ Live /\ exec[th].pc = "cancelEvent"
       /\ fc.mutex = Nil
       /\ IF NotRegistered("cancelEvent", fc, READ) \/ res.rt # 0
          THEN UNCHANGED <<fdctx, epoll, m_tasks, tickle, m_pendingEventCount, crashed>>
          ELSE Commit(M, IoFd, gen) /\ epoll' = res.epoll
       /\ exec' = [exec EXCEPT ![th].pc = "return"]
       /\ UNCHANGED <<do_io, m_fdContexts, created, call, reactor, nextId, life,
                      cancelledInFlight, m_idleThreadCount, fiber, t_fiber,
                      t_thread_fiber, t_scheduler_fiber, schedState, timerState>>

\* the callback returns into Fiber::MainFunc
OnTimerReturn(th) ==
    /\ Live /\ exec[th].pc = "return"
    /\ CommitFiber(MainFuncEnd(FiberLayer, th))
    /\ UNCHANGED <<do_io, ioState, m_tasks, m_idleThreadCount, tickle, t_thread_fiber,
                   t_scheduler_fiber, schedState, timerState>>

\* ------------------------------------------------------------ Scheduler::stop
\* line 187: if(stopping()) return; the virtual stopping() of the IOManager
\* calls getNextTimer, which clears m_tickled; m_stopping is unset, so the
\* result is false
StopStopping ==
    /\ Live /\ stopCall.pc = "none" /\ ~m_stopping
    /\ m_tickled' = FALSE
    /\ stopCall' = [stopCall EXCEPT !.pc = "m_stopping"]
    /\ UNCHANGED <<do_io, ioState, m_tasks, m_idleThreadCount, tickle, crashed, fiberState, local,
                   m_activeThreadCount, m_stopping, producer, nextTask, ran, tickles,
                   timer, m_timers, m_previouseTime, now, nextTimer, idle, timerCall>>

\* line 192: m_stopping = true
StopFlag ==
    /\ Live /\ stopCall.pc = "m_stopping"
    /\ m_stopping' = TRUE
    /\ stopCall' = [stopCall EXCEPT !.pc = "tickle"]
    /\ UNCHANGED <<do_io, ioState, m_tasks, m_idleThreadCount, tickle, crashed, fiberState, local,
                   m_activeThreadCount, producer, nextTask, ran, tickles, timerState>>

\* lines 204-207: tickle() once for each thread of the pool
StopTickle ==
    /\ Live /\ stopCall.pc = "tickle" /\ stopCall.i < m_threadCount
    /\ tickle' = Tickle(tickle)
    /\ stopCall' = [stopCall EXCEPT !.i = @ + 1]
    /\ UNCHANGED <<do_io, ioState, m_tasks, m_idleThreadCount, crashed, fiberState, local,
                   m_activeThreadCount, m_stopping, producer, nextTask, ran, tickles,
                   timerState>>

\* lines 221-231: the threads of the pool are joined: stop() returns when
\* every worker has left Scheduler::run
StopJoin ==
    /\ Live /\ stopCall.pc = "tickle" /\ stopCall.i = m_threadCount
    /\ \A th \in Pool : exec[th].pc = "exit"
    /\ stopCall' = [stopCall EXCEPT !.pc = "returned"]
    /\ UNCHANGED <<do_io, ioState, m_tasks, m_idleThreadCount, tickle, crashed, fiberState, local,
                   m_activeThreadCount, m_stopping, producer, nextTask, ran, tickles,
                   timerState>>

\* ------------------------------------------------------------ Fiber, bare
\* Fiber::GetThis on a thread with no current fiber: the main fiber is
\* created and becomes t_fiber, t_thread_fiber and t_scheduler_fiber
GetThis(th) ==
    /\ Live /\ t_fiber[th] = NoFiber
    /\ fiber' = [fiber EXCEPT ![MainFiber(th)] = MainFiberObject(MainFiber(th))]
    /\ t_fiber' = [t_fiber EXCEPT ![th] = MainFiber(th)]
    /\ t_thread_fiber' = [t_thread_fiber EXCEPT ![th] = MainFiber(th)]
    /\ t_scheduler_fiber' = [t_scheduler_fiber EXCEPT ![th] = MainFiber(th)]
    /\ exec' = [exec EXCEPT ![th] = Context(MainFiber(th), "main")]
    /\ UNCHANGED <<do_io, ioState, timerState, m_tasks, m_idleThreadCount, tickle, crashed,
                   schedState>>

\* the code of the thread's main fiber, outside any scheduler, runs
UserCode(th) == exec[th] = Context(MainFiber(th), "main")

\* new Fiber(cb, 0, run_in_scheduler) around the next closure
Create(th, f, run_in_scheduler) ==
    /\ Live /\ UserCode(th)
    /\ fiber[f].m_state = "none"
    /\ nextTask \in Closures
    /\ fiber' = [fiber EXCEPT ![f] = NewFiber(f, TaskCb(nextTask), run_in_scheduler)]
    /\ nextTask' = nextTask + 1
    /\ UNCHANGED <<do_io, ioState, timerState, m_tasks, m_idleThreadCount, tickle, crashed,
                   t_fiber, t_thread_fiber, t_scheduler_fiber, exec, local,
                   m_activeThreadCount, m_stopping, stopCall, producer, ran, tickles>>

\* f->reset(cb) with the next closure, on a TERM fiber that owns a stack
Reset(th, f) ==
    /\ Live /\ UserCode(th)
    /\ fiber[f].m_state = "TERM" /\ fiber[f].m_stack # NoFiber
    /\ nextTask \in Closures
    /\ CommitFiber(reset(FiberLayer, f, TaskCb(nextTask)))
    /\ nextTask' = nextTask + 1
    /\ UNCHANGED <<do_io, ioState, timerState, m_tasks, m_idleThreadCount, tickle,
                   t_thread_fiber, t_scheduler_fiber, local, m_activeThreadCount,
                   m_stopping, stopCall, producer, ran, tickles>>

\* f->resume() on a READY fiber
UserResume(th, f) ==
    /\ Live /\ UserCode(th)
    /\ fiber[f].m_state = "READY"
    /\ CommitFiber(resume(FiberLayer, th, f, "main"))
    /\ UNCHANGED <<do_io, ioState, timerState, m_tasks, m_idleThreadCount, tickle,
                   t_thread_fiber, t_scheduler_fiber, schedState>>

\* the entry closure calls Fiber::GetThis()->yield() half way
EntryYield(th) ==
    /\ Live /\ exec[th].pc = "m_cb"
    /\ CommitFiber(yield(FiberLayer, th, t_fiber[th], "m_cb, after yield"))
    /\ UNCHANGED <<do_io, ioState, timerState, m_tasks, m_idleThreadCount, tickle,
                   t_thread_fiber, t_scheduler_fiber, schedState>>

\* the entry closure goes on after its yield and returns
EntryResumed(th) ==
    /\ Live /\ exec[th].pc = "m_cb, after yield"
    /\ exec' = [exec EXCEPT ![th].pc = "m_cb"]
    /\ UNCHANGED <<do_io, ioState, timerState, m_tasks, m_idleThreadCount, tickle, crashed,
                   fiber, t_fiber, t_thread_fiber, t_scheduler_fiber, schedState>>

\* one thread that uses fibers without a scheduler (2fiber): it creates,
\* resumes and resets fibers whose closures may yield
NextFiber ==
    \/ GetThis(0)
    \/ \E n \in 1..2, ris \in BOOLEAN : Create(0, TaskFiber(n), ris)
    \/ \E n \in 1..2 : Reset(0, TaskFiber(n))
    \/ \E n \in 1..2 : UserResume(0, TaskFiber(n))
    \/ RunEntry(0)
    \/ EntryYield(0)
    \/ EntryResumed(0)
    \/ MainFuncReturn(0)
    \/ TermYield(0)

SpecFiber == Init /\ [][NextFiber]_vars

\* a plain Scheduler (3scheduler): one producer and two workers, tasks around
\* fibers and around callbacks, for any thread
NextSched ==
    \/ \E kind \in {"fiber", "cb"} : SchedulePush("p1", kind, -1)
    \/ ScheduleTickle("p1", FALSE)
    \/ \E th \in Workers, later \in BOOLEAN : Fetch(th, later)
    \/ \E th \in Workers : RunTickle(th, FALSE)
    \/ \E th \in Workers : Dispatch(th)
    \/ \E th \in Workers : Resumed(th)
    \/ \E th \in Workers : RunEntry(th)
    \/ \E th \in Workers : MainFuncReturn(th)
    \/ \E th \in Workers : TermYield(th)
    \/ \E th \in Workers : RunIdle(th)
    \/ \E th \in Workers : Idled(th)
    \/ \E th \in Workers : SchedulerIdle(th)

SpecSched == Init /\ [][NextSched]_vars

\* a plain Scheduler: one producer and two workers, tasks around callbacks
\* for any thread or for one of the workers
NextTargets ==
    \/ \E thread \in {-1} \cup Workers : SchedulePush("p1", "cb", thread)
    \/ ScheduleTickle("p1", FALSE)
    \/ \E th \in Workers, later \in BOOLEAN : Fetch(th, later)
    \/ \E th \in Workers : RunTickle(th, FALSE)
    \/ \E th \in Workers : Dispatch(th)
    \/ \E th \in Workers : Resumed(th)
    \/ \E th \in Workers : RunEntry(th)
    \/ \E th \in Workers : MainFuncReturn(th)
    \/ \E th \in Workers : TermYield(th)
    \/ \E th \in Workers : RunIdle(th)
    \/ \E th \in Workers : Idled(th)
    \/ \E th \in Workers : SchedulerIdle(th)

SpecTargets == Init /\ [][NextTargets]_vars

\* a plain Scheduler: two producers and one worker, tasks around callbacks
\* for any thread
NextProducers ==
    \/ \E p \in Producers : SchedulePush(p, "cb", -1)
    \/ \E p \in Producers : ScheduleTickle(p, FALSE)
    \/ \E later \in BOOLEAN : Fetch(1, later)
    \/ RunTickle(1, FALSE)
    \/ Dispatch(1)
    \/ Resumed(1)
    \/ RunEntry(1)
    \/ MainFuncReturn(1)
    \/ TermYield(1)
    \/ RunIdle(1)
    \/ Idled(1)
    \/ SchedulerIdle(1)

\* a producer is a running thread: its call of scheduleLock goes on
SpecProducers ==
    /\ Init /\ [][NextProducers]_vars
    /\ \A p \in Producers : WF_vars(ScheduleTickle(p, FALSE))

\* an IOManager with one worker; another thread adds timers (one-shot ones,
\* and recurring ones with a period that is not 0) and cancels them
NextTimer ==
    \/ \E ms \in 0..MaxTime, recurring \in BOOLEAN :
          (recurring => ms > 0) /\ AddTimer(0, ms, TimerCb(nextTimer), recurring)
    \/ FrontInserted(0)
    \/ \E t \in Timers : Cancel(0, t)
    \/ \E later \in BOOLEAN : Fetch(1, later)
    \/ RunTickle(1, TRUE)
    \/ Dispatch(1)
    \/ Resumed(1)
    \/ RunEntry(1)
    \/ MainFuncReturn(1)
    \/ TermYield(1)
    \/ RunIdle(1)
    \/ Idled(1)
    \/ StoppingTimer(1)
    \/ StoppingPending(1)
    \/ StoppingSched(1)
    \/ IdleGetNextTimer(1)
    \/ \E pipe \in BOOLEAN : EpollReturn(1, pipe)
    \/ ListExpired(1)
    \/ IdleSchedule(1)
    \/ IdleYield(1)
    \/ Tick

SpecTimer == Init /\ [][NextTimer]_vars

\* an IOManager with one worker and the clock at its own resolution; another
\* thread adds one-shot timers and asks for the next timeout
NextClock ==
    \/ \E ms \in 0..MaxTime : AddTimer(0, ms, TimerCb(nextTimer), FALSE)
    \/ FrontInserted(0)
    \/ GetNextTimer(0)
    \/ \E later \in BOOLEAN : Fetch(1, later)
    \/ RunTickle(1, TRUE)
    \/ Dispatch(1)
    \/ Resumed(1)
    \/ RunEntry(1)
    \/ MainFuncReturn(1)
    \/ TermYield(1)
    \/ RunIdle(1)
    \/ Idled(1)
    \/ StoppingTimer(1)
    \/ StoppingPending(1)
    \/ StoppingSched(1)
    \/ IdleGetNextTimer(1)
    \/ \E pipe \in BOOLEAN : EpollReturn(1, pipe)
    \/ ListExpired(1)
    \/ IdleSchedule(1)
    \/ IdleYield(1)
    \/ Tock

SpecClock == Init /\ [][NextClock]_vars

\* an IOManager with one worker, constructed at a late reading of the clock;
\* another thread adds timers (one-shot ones, and recurring ones with a
\* period that is not 0), and the clock is set back by more than an hour
NextRollover ==
    \/ \E ms \in 0..MaxTime, recurring \in BOOLEAN :
          /\ recurring => ms > 0
          /\ TimerLockFree
          /\ AddTimer(0, ms, TimerCb(nextTimer), recurring)
    \/ FrontInserted(0)
    \/ ClockSetBack
    \/ \E later \in BOOLEAN : Fetch(1, later)
    \/ RunTickle(1, TRUE)
    \/ Dispatch(1)
    \/ Resumed(1)
    \/ RunEntry(1)
    \/ MainFuncReturn(1)
    \/ TermYield(1)
    \/ RunIdle(1)
    \/ Idled(1)
    \/ StoppingTimer(1)
    \/ StoppingPending(1)
    \/ StoppingSched(1)
    \/ IdleGetNextTimer(1)
    \/ \E pipe \in BOOLEAN : EpollReturn(1, pipe)
    \/ ListExpired(1)
    \/ ListExpiredLoops(1)
    \/ IdleSchedule(1)
    \/ IdleYield(1)
    \/ Tick

SpecRollover == InitAt(Late) /\ [][NextRollover]_vars

\* an IOManager with two workers and a thread that adds a one-shot timer,
\* the threads scheduled fairly: the workers' threads and the thread inside
\* addTimer keep running
NextFront ==
    \/ \E ms \in 0..MaxTime :
          nextTimer <= MaxFront /\ AddTimer(0, ms, TimerCb(nextTimer), FALSE)
    \/ FrontInserted(0)
    \/ \E th \in Workers :
          \/ \E later \in BOOLEAN : Fetch(th, later)
          \/ RunTickle(th, TRUE)
          \/ Dispatch(th)
          \/ Resumed(th)
          \/ RunEntry(th)
          \/ MainFuncReturn(th)
          \/ TermYield(th)
          \/ RunIdle(th)
          \/ Idled(th)
          \/ StoppingTimer(th)
          \/ StoppingPending(th)
          \/ StoppingSched(th)
          \/ IdleGetNextTimer(th)
          \/ \E pipe \in BOOLEAN : EpollReturn(th, pipe)
          \/ ListExpired(th)
          \/ IdleSchedule(th)
          \/ IdleYield(th)
    \/ Tick

SpecFront ==
    /\ Init /\ [][NextFront]_vars
    /\ WF_vars(FrontInserted(0))
    /\ \A th \in Workers :
          /\ WF_vars(\E later \in BOOLEAN : Fetch(th, later))
          /\ WF_vars(RunTickle(th, TRUE))
          /\ WF_vars(Dispatch(th))
          /\ WF_vars(Resumed(th))
          /\ WF_vars(RunEntry(th))
          /\ WF_vars(MainFuncReturn(th))
          /\ WF_vars(TermYield(th))
          /\ WF_vars(RunIdle(th))
          /\ WF_vars(Idled(th))
          /\ WF_vars(StoppingTimer(th))
          /\ WF_vars(StoppingPending(th))
          /\ WF_vars(StoppingSched(th))
          /\ WF_vars(IdleGetNextTimer(th))
          /\ WF_vars(\E pipe \in BOOLEAN : EpollReturn(th, pipe))
          /\ WF_vars(ListExpired(th))
          /\ WF_vars(IdleSchedule(th))
          /\ WF_vars(IdleYield(th))

\* what a worker of the pool does, its tasks being closures that sleep and
\* the callbacks of their timers
Worker(th) ==
    \/ \E later \in BOOLEAN : Fetch(th, later)
    \/ RunTickle(th, TRUE)
    \/ Dispatch(th)
    \/ Resumed(th)
    \/ RunEntry(th)
    \/ \E seconds \in 0..1 : Sleep(th, seconds)
    \/ FrontInserted(th)
    \/ SleepYield(th)
    \/ SleepReturn(th)
    \/ Wake(th)
    \/ TaskRunBy(exec[th].who) \in Tasks /\ MainFuncReturn(th)
    \/ TermYield(th)
    \/ RunIdle(th)
    \/ Idled(th)
    \/ StoppingTimer(th)
    \/ StoppingPending(th)
    \/ StoppingSched(th)
    \/ IdleGetNextTimer(th)
    \/ \E pipe \in BOOLEAN : EpollReturn(th, pipe)
    \/ ListExpired(th)
    \/ IdleSchedule(th)
    \/ IdleYield(th)

\* the main thread inside stop()
Stop == StopFlag \/ StopTickle \/ StopJoin

\* an IOManager with one worker; the main thread submits tasks that sleep
\* and calls stop() while a sleep timer is pending and the worker is blocked
\* in epoll_wait
NextStop ==
    \/ stopCall.pc = "none" /\ nextTask <= MaxSleep /\ SchedulePush("p1", "fiber", -1)
    \/ ScheduleTickle("p1", TRUE)
    \/ /\ producer["p1"].pc = "none"
       /\ m_timers # {}
       /\ \A th \in Pool : InIdle(th, {"epoll_wait"})
       /\ StopStopping
    \/ Stop
    \/ \E th \in Pool : Worker(th)
    \/ Tick

\* the threads are scheduled fairly and time passes
SpecStop ==
    /\ Init /\ [][NextStop]_vars
    /\ WF_vars(ScheduleTickle("p1", TRUE))
    /\ WF_vars(Stop)
    /\ \A th \in Pool : WF_vars(Worker(th))
    /\ WF_vars(Tick)

\* an IOManager with one worker; the main thread adds timers and calls
\* stop() at any moment
NextShutdown ==
    \/ \E ms \in 0..MaxTime :
          stopCall.pc = "none" /\ AddTimer(0, ms, TimerCb(nextTimer), FALSE)
    \/ FrontInserted(0)
    \/ timerCall[0].pc = "none" /\ StopStopping
    \/ StopFlag
    \/ StopTickle
    \/ StopJoin
    \/ \E later \in BOOLEAN : Fetch(1, later)
    \/ RunTickle(1, TRUE)
    \/ Dispatch(1)
    \/ Resumed(1)
    \/ RunEntry(1)
    \/ MainFuncReturn(1)
    \/ TermYield(1)
    \/ RunIdle(1)
    \/ Idled(1)
    \/ StoppingTimer(1)
    \/ StoppingPending(1)
    \/ StoppingSched(1)
    \/ IdleGetNextTimer(1)
    \/ \E pipe \in BOOLEAN : EpollReturn(1, pipe)
    \/ ListExpired(1)
    \/ IdleSchedule(1)
    \/ IdleYield(1)
    \/ Tick

SpecShutdown == Init /\ [][NextShutdown]_vars

\* what a worker does when the tasks are coroutines that make a hooked call
\* with a timeout on a descriptor that never becomes ready, and the
\* callbacks of their condition timers
HookWorker(th) ==
    \/ \E later \in BOOLEAN : Fetch(th, later)
    \/ RunTickle(th, TRUE)
    \/ Dispatch(th)
    \/ Resumed(th)
    \/ RunEntry(th)
    \/ \E timeout \in 0..MaxHookTime :
          /\ now + milliseconds(timeout) <= milliseconds(MaxHookTime)
          /\ DoIoAddTimer(th, timeout)
    \/ FrontInserted(th)
    \/ DoIoAddEvent(th)
    \/ DoIoYield(th)
    \/ DoIoResumed(th)
    \/ OnTimer(th)
    \/ OnTimerCancelEvent(th)
    \/ OnTimerReturn(th)
    \/ /\ TaskRunBy(exec[th].who) \in Tasks
       /\ do_io[TaskRunBy(exec[th].who)].n # 0
       /\ MainFuncReturn(th)
    \/ TermYield(th)
    \/ RunIdle(th)
    \/ Idled(th)
    \/ StoppingTimer(th)
    \/ StoppingPending(th)
    \/ StoppingSched(th)
    \/ IdleGetNextTimer(th)
    \/ \E pipe \in BOOLEAN : EpollReturn(th, pipe)
    \/ ListExpired(th)
    \/ IdleSchedule(th)
    \/ IdleYield(th)

\* an IOManager with two workers; the main thread submits coroutines that
\* make a hooked call with a timeout that ends within the clock's range
NextHook ==
    \/ nextTask <= MaxHook /\ SchedulePush("p1", "fiber", -1)
    \/ ScheduleTickle("p1", TRUE)
    \/ \E th \in Workers : HookWorker(th)
    \/ now + milliseconds(1) <= milliseconds(MaxHookTime) /\ Tick

\* the threads are scheduled fairly and time passes
SpecHook ==
    /\ Init /\ [][NextHook]_vars
    /\ WF_vars(ScheduleTickle("p1", TRUE))
    /\ \A th \in Workers : WF_vars(HookWorker(th))
    /\ WF_vars(Tick)


\* =================================================================
\* Properties
\* =================================================================
\* the waiter a task of the queue carries
TaskWaiter(task) == IF task.cb # 0 THEN task.cb ELSE task.fiber

\* how many times waiter i has been submitted (the model never takes a
\* task off the queue, so the queue holds every submission)
Submissions(i) == Cardinality({ n \in 1..Len(m_tasks) : TaskWaiter(m_tasks[n]) = i })

\* C1 (as amended): a registered waiter is submitted at most once: exactly
\* once when its registration was ended by the reactor, by cancelEvent or by
\* cancelAll (by one of them only), and not at all when it was ended by
\* delEvent or is still in force.
C1_SubmittedAtMostOnce ==
    \A i \in Ids :
        /\ life[i] \in {"idle", "cancelEvent", "cancelAll"} => Submissions(i) = 1
        /\ life[i] \in {"none", "reg", "delEvent"} => Submissions(i) = 0

\* C1 as stated: every registration that has ended was ended by the reactor
\* or by cancelEvent, with exactly one submission.
C1_AsStated ==
    \A i \in Ids :
        life[i] \notin {"none", "reg"} =>
            /\ life[i] \in {"idle", "cancelEvent"}
            /\ Submissions(i) = 1

\* one registration ended by delEvent, never submitted, and one ended by
\* cancelAll, submitted once
C1_Witness ==
    \E i, j \in Ids :
        /\ life[i] = "delEvent" /\ Submissions(i) = 0
        /\ life[j] = "cancelAll" /\ Submissions(j) = 1

\* no FdContext's mutex is held
NoMutexHeld == \A fd \in Fds, g \in Gens : fdctx[fd][g].mutex = Nil

\* C2: whenever no per-fd mutex is held, m_pendingEventCount is the number
\* of bits set over the events of all FdContext objects, which is also the
\* number of (fd, event) pairs registered and not yet fired, deleted or
\* cancelled.
C2_PendingCountIsSetBits ==
    NoMutexHeld =>
        /\ m_pendingEventCount =
              Cardinality({ t \in Fds \X Gens \X Event : t[3] \in fdctx[t[1]][t[2]].events })
        /\ m_pendingEventCount =
              Cardinality({ p \in Fds \X Event :
                              \E g \in Gens : p[2] \in fdctx[p[1]][g].events })

\* no mutex held, one registration fired by the reactor, one deleted or
\* cancelled, one still in force
C2_Witness ==
    /\ NoMutexHeld
    /\ m_pendingEventCount = 1
    /\ \E i \in Ids : life[i] = "idle"
    /\ \E i \in Ids : life[i] = "reg"

\* the table has an FdContext for fd
InTable(fd) == m_fdContexts.size > fd /\ m_fdContexts.slot[fd] # 0

\* the FdContext the table holds for fd
TableContext(fd) == fdctx[fd][m_fdContexts.slot[fd]]

\* C3 as stated: for every fd, whenever the mutex of its FdContext is not
\* held, the events of that FdContext are the READ/WRITE interest epoll
\* holds for the fd (none when the fd is not in epoll).
C3_AsStated ==
    \A fd \in Fds :
        (InTable(fd) /\ TableContext(fd).mutex = Nil) =>
            TableContext(fd).events = EpollMask(fd)

\* caller c takes the step of addEvent that locks the FdContext and finds
\* its event already set
RejectingAdd(c) ==
    /\ call[c].op = "addEvent" /\ call[c].pc = "lock"
    /\ call'[c] # call[c]
    /\ call[c].event \in fdctx[call[c].fd][call[c].ctx].events

\* the waiters registered for (fd, event), as seen outside the critical
\* sections: those of the FdContexts of fd whose mutex is not held
Settled(fd, event) ==
    { WaiterOf(getEventContext(fdctx[fd][g], event)) :
        g \in { h \in Gens : fdctx[fd][h].mutex = Nil } } \ {0}

\* caller c takes the step of addEvent that completes a registration
CompletingAdd(c) ==
    /\ call[c].op = "addEvent" /\ call[c].pc = "body"
    /\ call'[c].pc = "done"

\* C4: addEvent(fd, E) while bit E is set returns -1 and leaves the
\* FdContexts (events and both EventContexts), the epoll registrations,
\* m_pendingEventCount (and the task queue) unchanged; a registration is
\* only ever completed on an empty EventContext and a pair no waiter is
\* registered for, so no (fd, event) pair is registered to more than one
\* waiter at a time.
C4_RejectWhenAlreadySet ==
    /\ [](\A fd \in Fds, e \in Event : Cardinality(Settled(fd, e)) <= 1)
    /\ [][\A c \in Callers :
            /\ RejectingAdd(c) =>
                  /\ call'[c].pc = "done" /\ call'[c].rv = -1
                  /\ UNCHANGED <<fdctx, epoll, m_pendingEventCount, m_tasks>>
            /\ CompletingAdd(c) =>
                  /\ getEventContext(fdctx[call[c].fd][call[c].ctx], call[c].event)
                        = EmptyEventContext
                  /\ Settled(call[c].fd, call[c].event) = {}
                  /\ Settled(call[c].fd, call[c].event)' = call'[c].target]_vars

\* an addEvent has been rejected: it returned -1 without epoll_ctl having
\* failed, and the waiter registered before is still the one registered
C4_Witness ==
    \E c \in Callers :
        /\ call[c].op = "addEvent" /\ call[c].pc = "done"
        /\ call[c].rv = -1 /\ call[c].rt = 0
        /\ call[c].event \in fdctx[call[c].fd][call[c].ctx].events
        /\ Registered(call[c].fd, call[c].event) # {}

\* C5 as stated: when cancelEvent(fd, E) has returned while a worker held an
\* unprocessed report naming E, that worker, processing the report, does not
\* go on to trigger E: E is not among the real_events it triggers under the
\* mutex, and no triggerEvent(E) of it fails its assertion.
C5_AsStated ==
    \A r \in Reactors : \A p \in cancelledInFlight[r] :
        /\ ~ ( /\ reactor[r].pc = "trigger"
               /\ reactor[r].cur.fd = p[1]
               /\ p[2] \in reactor[r].cur.real_events )
        /\ ~ ( /\ crashed.assert = "triggerEvent"
               /\ crashed.fd = p[1] /\ crashed.event = p[2] )

\* caller c's call of `op` returns in this step, its epoll_ctl (if it got that
\* far) not having failed
Returning(c, op) ==
    /\ call[c].pc # "done" /\ call'[c].pc = "done"
    /\ call'[c].op = op /\ call'[c].rt = 0

\* the waiters the call of c was made for are all still registered
StillRegistered(c) ==
    /\ call'[c].target # {}
    /\ \A i \in call'[c].target : life[i] = "reg"

\* after the step, no FdContext of fd has `event` set or its EventContext
\* populated
Cleared(fd, event) ==
    \A g \in Gens : /\ event \notin fdctx'[fd][g].events
                    /\ getEventContext(fdctx'[fd][g], event) = EmptyEventContext

\* C6 as stated: cancelEvent(fd, E), called after addEvent(fd, E) returned 0
\* and with no readiness (or other call) having ended the registration,
\* submits the waiter exactly once, by the cancel path; on its return bit E
\* is clear, the EventContext is empty and m_pendingEventCount is back to
\* its value before the addEvent.
C6_AsStated ==
    [][\A c \in Callers :
          (Returning(c, "cancelEvent") /\ StillRegistered(c)) =>
              /\ call'[c].rv = TRUE
              /\ \A i \in call'[c].target :
                    /\ life'[i] = "cancelEvent"
                    /\ Submissions(i) = 0 /\ Submissions(i)' = 1
              /\ Cleared(call'[c].fd, call'[c].event)
              /\ m_pendingEventCount' = m_pendingEventCount - 1]_vars

\* the step leaves every FdContext and epoll registration of the other
\* descriptors as they are
OtherFdsUnchanged(fd) ==
    \A other \in Fds \ {fd} : fdctx'[other] = fdctx[other] /\ epoll'[other] = epoll[other]

\* the step leaves event e of fd as it is: its bit and EventContext, in
\* every FdContext of fd
EventUnchanged(fd, e) ==
    \A g \in Gens :
        /\ (e \in fdctx'[fd][g].events) = (e \in fdctx[fd][g].events)
        /\ getEventContext(fdctx'[fd][g], e) = getEventContext(fdctx[fd][g], e)

\* C7 as stated: delEvent(fd, E) on a registered event returns true with
\* bit E clear, the epoll registration of fd reduced to the events left,
\* m_pendingEventCount one less, the EventContext reset and the waiter not
\* submitted; the task queue, the other event of fd and all other fds are
\* unchanged. On an unregistered (fd, E) it returns false and changes nothing.
C7_AsStated ==
    [][\A c \in Callers, fd \in Fds, e \in Event :
          (Returning(c, "delEvent") /\ call'[c].fd = fd /\ call'[c].event = e) =>
              IF Registered(fd, e) # {}
              THEN /\ call'[c].rv = TRUE
                   /\ Cleared(fd, e)
                   /\ \A i \in Registered(fd, e) : life'[i] = "delEvent"
                   /\ \A x \in Event : (x \in EpollMask(fd)') = (Registered(fd, x)' # {})
                   /\ m_pendingEventCount' = m_pendingEventCount - 1
                   /\ m_tasks' = m_tasks
                   /\ \A x \in Event \ {e} : EventUnchanged(fd, x)
                   /\ OtherFdsUnchanged(fd)
              ELSE /\ call'[c].rv = FALSE
                   /\ UNCHANGED <<fdctx, epoll, m_pendingEventCount, m_tasks>>]_vars

\* C8 as stated: cancelAll(fd) on an fd with a registered event returns true
\* with the fd out of epoll, each registered waiter submitted exactly once,
\* no event left set and m_pendingEventCount less by the number of events
\* that were registered; on an fd with no registered event it returns false
\* and changes nothing.
C8_AsStated ==
    [][\A c \in Callers, fd \in Fds :
          (Returning(c, "cancelAll") /\ call'[c].fd = fd) =>
              IF Registered(fd, 0) # {}
              THEN /\ call'[c].rv = TRUE
                   /\ ~epoll'[fd].reg
                   /\ \A i \in Registered(fd, 0) :
                         /\ life'[i] = "cancelAll"
                         /\ Submissions(i) = 0 /\ Submissions(i)' = 1
                   /\ \A e \in Event : Cleared(fd, e)
                   /\ m_pendingEventCount' =
                         m_pendingEventCount - Cardinality(Registered(fd, 0))
              ELSE /\ call'[c].rv = FALSE
                   /\ UNCHANGED <<fdctx, epoll, m_pendingEventCount, m_tasks>>]_vars

\* C9 as stated: a call whose epoll_ctl returned nonzero reports failure
\* (addEvent: a nonzero value; delEvent, cancelEvent, cancelAll: false) and
\* leaves the FdContexts (events and EventContexts), m_pendingEventCount
\* and the task queue unchanged.
C9_AsStated ==
    [][\A c \in Callers :
          (call[c].pc # "done" /\ call'[c].pc = "done" /\ call'[c].rt # 0) =>
              /\ IF call'[c].op = "addEvent"
                 THEN call'[c].rv # 0
                 ELSE call'[c].rv = FALSE
              /\ UNCHANGED <<fdctx, m_pendingEventCount, m_tasks>>]_vars

\* worker r, holding the mutex of the FdContext it reported on, takes the
\* step that triggers what real_events names
Triggering(r) ==
    /\ reactor[r].pc = "trigger"
    /\ fdctx[reactor[r].cur.fd][reactor[r].cur.ptr].mutex = r
    /\ (reactor'[r] # reactor[r] \/ crashed' # crashed)

\* the waiters submitted by the step
Submitted == { i \in Ids : Submissions(i)' > Submissions(i) }

\* C10: registrations are one-shot. Every waiter a worker submits from its
\* reactor pass is the one registered for an event E whose bit is set in the
\* FdContext the worker holds the mutex of, is submitted once, and bit E is
\* clear and the EventContext empty when the mutex is next free; an event
\* whose bit is clear therefore yields no submission, and a clear bit is set
\* again only by an addEvent for that (fd, E) completing.
C10_OneShot ==
    [][/\ \A r \in Reactors :
            Triggering(r) =>
                LET cur == reactor[r].cur
                    old == fdctx[cur.fd][cur.ptr]
                    new == fdctx'[cur.fd][cur.ptr]
                    fired == { e \in Event : /\ e \in old.events /\ e \notin new.events }
                IN /\ Submitted = { WaiterOf(getEventContext(old, e)) : e \in fired }
                   /\ Len(m_tasks') = Len(m_tasks) + Cardinality(fired)
                   /\ fired \subseteq cur.real_events
                   /\ \A e \in fired : getEventContext(new, e) = EmptyEventContext
                   /\ \A i \in Submitted : Submissions(i)' = 1
                   /\ new.events \subseteq old.events
       /\ \A fd \in Fds, g \in Gens, e \in Event :
            (e \notin fdctx[fd][g].events /\ e \in fdctx'[fd][g].events) =>
                \E c \in Callers :
                    /\ CompletingAdd(c)
                    /\ call[c].fd = fd /\ call[c].event = e /\ call[c].ctx = g]_vars

\* a registration has been fired by one worker (bit clear, waiter submitted
\* once) and another worker still holds a report of that event's readiness
C10_Witness ==
    \E i \in Ids, r \in Reactors, fd \in Fds, e \in Event :
        /\ life[i] = "idle" /\ Submissions(i) = 1
        /\ InTable(fd) /\ e \notin TableContext(fd).events
        /\ TableContext(fd).mutex = Nil
        /\ \E rp \in reactor[r].events : rp.fd = fd /\ e \in rp.events
        /\ \A j \in Ids : life[j] # "reg"

\* ------------------------------------------------------------------ C11
\* the identity of the task a ScheduleTask carries
TaskId(task) == IF task.fiber # 0 THEN task.fiber ELSE task.cb

\* how many times task n is in the queue
InQueue(n) == Cardinality({ i \in 1..Len(m_tasks) : TaskId(m_tasks[i]) = n })

\* the workers whose run loop holds task n
HeldBy(n) == { th \in Workers : TaskId(local[th].task) = n }

\* the threads on which the entry of task n is running
Executing(n) == { th \in Threads : TaskRunBy(exec[th].who) = n /\ exec[th].pc = "m_cb" }

\* every task scheduleLock was called for
SubmittedTasks == 1..(nextTask - 1)

\* the queue is empty and no worker holds a task
Quiescent == m_tasks = <<>> /\ \A th \in Workers : local[th].task = NoTask

\* C11: every task submitted for any thread is executed exactly once by
\* exactly one worker: its entry is never entered twice and never runs on
\* two threads at once, a task not yet entered is in the queue once or held
\* by one worker (none is dropped), and when the queue is drained and no
\* worker holds a task, the number of executions equals the number
\* submitted, one for each task.
C11_ExactlyOnce ==
    /\ \A n \in SubmittedTasks :
          /\ Len(ran[n]) <= 1
          /\ Cardinality(Executing(n)) <= 1
          /\ ran[n] = <<>> => InQueue(n) + Cardinality(HeldBy(n)) = 1
          /\ ran[n] # <<>> => InQueue(n) = 0 /\ Cardinality(HeldBy(n)) <= 1
    /\ \A n \in Closures \ SubmittedTasks : ran[n] = <<>>
    /\ Quiescent => \A n \in SubmittedTasks : Len(ran[n]) = 1

\* every task was submitted and executed, and both workers executed one,
\* a task around a fiber and a task around a callback among them
C11_Witness ==
    /\ nextTask = MaxTask + 1 /\ Quiescent
    /\ \A n \in Tasks : Len(ran[n]) = 1
    /\ \E n, m \in Tasks : ran[n] = <<1>> /\ ran[m] = <<2>>
    /\ \E n, m \in Tasks : fiber[TaskFiber(n)].m_state = "TERM"
                           /\ fiber[CbFiber(m)].m_state = "TERM"

\* ------------------------------------------------------------------ C12
\* the threads Fiber::GetThis() has run on
Initialized == { th \in Threads : t_thread_fiber[th] # NoFiber }

\* the fibers of thread th: its main fiber, its idle fiber, its scheduler
\* fiber, its current fiber and the fiber of the task its run loop holds
FibersOf(th) ==
    ({MainFiber(th), IdleFiber(th), t_scheduler_fiber[th], t_fiber[th]}
     \cup (IF local[th].task # NoTask THEN {FiberOf(local[th].task)} ELSE {}))
    \ {NoFiber}

RunningOn(th) == { f \in FibersOf(th) : fiber[f].m_state = "RUNNING" }

\* the fibers that resumed the current fiber of th and wait for it to yield
\* back: the scheduler fiber under a fiber that runs in the scheduler, the
\* main fiber under everything else
Resumers(th) ==
    LET f == t_fiber[th]
    IN (IF f # t_scheduler_fiber[th] /\ f # t_thread_fiber[th] /\ fiber[f].m_runInScheduler
        THEN {t_scheduler_fiber[th]} ELSE {})
       \cup (IF f # t_thread_fiber[th] THEN {t_thread_fiber[th]} ELSE {})

\* C12 as stated: on every initialized thread exactly one fiber has state
\* RUNNING.
C12_AsStated == \A th \in Initialized : Cardinality(RunningOn(th)) = 1

\* C12 (as amended): on every initialized thread the current fiber is the
\* one whose code runs and has state RUNNING (TERM between the return of
\* its entry and its last yield); the other fibers of the thread with state
\* RUNNING are exactly the fibers that resumed it and have not got control
\* back (resume leaves the state of the resumer as it is), and no fiber is
\* current on two threads.
C12_CurrentIsRunning ==
    /\ \A th \in Initialized :
          /\ t_fiber[th] = exec[th].who
          /\ fiber[t_fiber[th]].m_state = IF exec[th].pc = "TERM" THEN "TERM"
                                          ELSE "RUNNING"
          /\ RunningOn(th) \cup {t_fiber[th]} = {t_fiber[th]} \cup Resumers(th)
    /\ \A a, b \in Initialized : a # b => t_fiber[a] # t_fiber[b]

\* a task's fiber runs on worker 1 while the idle fiber runs on worker 2
C12_Witness ==
    /\ \E n \in Tasks : t_fiber[1] = TaskFiber(n) /\ exec[1].pc = "m_cb"
    /\ t_fiber[2] = IdleFiber(2)
    /\ Cardinality(RunningOn(1)) = 2

\* ------------------------------------------------------------------ C13
\* a step that takes fiber f from TERM to READY (Fiber::reset)
ResetStep(f) == fiber[f].m_state = "TERM" /\ fiber'[f].m_state = "READY"

\* a step that starts fiber f at its entry (resume of a fiber that has not
\* run since it was built or reset)
StartStep(f) ==
    /\ fiber[f].m_state = "READY" /\ fiber[f].m_ctx.pc = "MainFunc"
    /\ fiber'[f].m_state = "RUNNING"

\* the last yield of fiber f on thread th, after its entry returned
LastYieldStep(th, f) ==
    fiber[f].m_state = "TERM" /\ t_fiber[th] = f /\ t_fiber'[th] # f

\* C13: reset(cb) on a TERM fiber that owns a stack leaves the Fiber object
\* as the constructor would leave a new one around cb, on the stack the fiber
\* already had; the resume that follows makes it RUNNING and current at the
\* beginning of MainFunc, so cb runs from its beginning; and when cb has
\* returned the fiber is TERM with its closure cleared and control is back
\* in the parent, right after its resume.
C13_ResetLikeNew ==
    [][\A f \in FiberIds :
          /\ ResetStep(f) =>
                /\ fiber'[f] = NewFiber(f, TaskCb(nextTask), fiber[f].m_runInScheduler)
                /\ fiber'[f].m_stack = fiber[f].m_stack
                /\ fiber[f].m_stack = f
          /\ StartStep(f) =>
                /\ exec'[0] = Context(f, "MainFunc")
                /\ t_fiber'[0] = f
          /\ LastYieldStep(0, f) =>
                /\ fiber'[f].m_state = "TERM" /\ fiber'[f].m_cb = NoCb
                /\ t_fiber'[0] = MainFiber(0)
                /\ exec'[0] = Context(MainFiber(0), "main")]_vars

\* two closures have run to their end on the one Fiber object that was ever
\* built: the second one after a reset
C13_Witness ==
    /\ UserCode(0)
    /\ fiber[TaskFiber(1)].m_state = "TERM" /\ fiber[TaskFiber(1)].m_cb = NoCb
    /\ fiber[TaskFiber(2)].m_state = "none"
    /\ ran[1] = <<0>> /\ ran[2] = <<0>>

\* ------------------------------------------------------------------ C14
\* thread th may run the task
Eligible(task, th) == task.thread = -1 \/ task.thread = th

\* the queue holds the tasks in the order scheduleLock appended them
\* (identities are given out in that order)
QueueInOrder ==
    \A i, j \in 1..Len(m_tasks) : i < j => TaskId(m_tasks[i]) < TaskId(m_tasks[j])

\* a step in which the run loop of th scans the queue
FetchStep(th) == exec[th].pc = "loop" /\ exec'[th].pc # "loop"

\* the queue after the step is the queue before it without position i
RemovedAt(i) ==
    /\ Len(m_tasks') = Len(m_tasks) - 1
    /\ \A j \in 1..Len(m_tasks') : m_tasks'[j] = m_tasks[IF j < i THEN j ELSE j + 1]

\* C14: a scan of the queue by a worker takes out the earliest-enqueued task
\* whose target thread is any (-1) or the worker's own id, and nothing when
\* there is none; the tasks that stay keep their relative order, so the
\* queue is always in the order of enqueueing.
C14_EarliestEligible ==
    /\ []QueueInOrder
    /\ [][\A th \in Workers :
            FetchStep(th) =>
               IF \E i \in 1..Len(m_tasks) : Eligible(m_tasks[i], th)
               THEN \E i \in 1..Len(m_tasks) :
                       /\ Eligible(m_tasks[i], th)
                       /\ \A j \in 1..(i - 1) : ~Eligible(m_tasks[j], th)
                       /\ local'[th].task = m_tasks[i]
                       /\ RemovedAt(i)
               ELSE local'[th].task = NoTask /\ m_tasks' = m_tasks]_vars

\* a worker took the second of three tasks: the first is bound to the other
\* worker and stays in front of the third
C14_Witness ==
    \E th \in Workers :
       /\ local[th].task # NoTask /\ TaskId(local[th].task) = 2
       /\ Len(m_tasks) = 2
       /\ TaskId(m_tasks[1]) = 1 /\ ~Eligible(m_tasks[1], th)
       /\ TaskId(m_tasks[2]) = 3 /\ Eligible(m_tasks[2], th)

\* ------------------------------------------------------------------ C15
\* a step in which scheduleLock appends task n
PushStep(n) == nextTask = n /\ nextTask' = n + 1

\* a step in which the scheduleLock call that appended task n calls tickle()
TickleStep(n) == tickles'[n].calls = tickles[n].calls + 1

\* the producers whose call for task n has still to call tickle()
AboutToTickle(n) == { p \in Producers : producer[p].pc = "tickle" /\ producer[p].task = n }

\* C15: scheduleLock appends the task and calls tickle() if and only if the
\* queue was empty immediately before the insertion: the task goes to the
\* back of the queue and the emptiness of the queue before the step decides
\* whether the call is going to tickle; tickle() is called once, by a call
\* that found the queue empty, and never by one that found a task in it;
\* and with two producers every insertion into the empty queue is followed
\* by a call of tickle().
C15_TickleIffWasEmpty ==
    /\ [][\A n \in Tasks :
            /\ PushStep(n) =>
                  /\ Len(m_tasks') = Len(m_tasks) + 1
                  /\ SubSeq(m_tasks', 1, Len(m_tasks)) = m_tasks
                  /\ TaskId(m_tasks'[Len(m_tasks')]) = n
                  /\ tickles'[n].wasEmpty = (m_tasks = <<>>)
                  /\ (AboutToTickle(n)' # {}) = (m_tasks = <<>>)
            /\ TickleStep(n) => AboutToTickle(n) # {} /\ AboutToTickle(n)' = {}]_vars
    /\ [](\A n \in Tasks :
            /\ tickles[n].calls <= 1
            /\ tickles[n].calls = 1 => tickles[n].wasEmpty
            /\ ~tickles[n].wasEmpty => AboutToTickle(n) = {}
            /\ Cardinality(AboutToTickle(n)) + tickles[n].calls <= 1)
    /\ \A n \in Tasks : tickles[n].wasEmpty ~> (tickles[n].calls = 1)

\* two producers: one found the queue empty and has called tickle(), the
\* other appended to the non-empty queue and its call is over without one;
\* later the queue was empty again and the next call tickled again
C15_Witness ==
    /\ nextTask = MaxTask + 1
    /\ tickles[1].wasEmpty /\ tickles[1].calls = 1
    /\ ~tickles[2].wasEmpty /\ tickles[2].calls = 0
    /\ tickles[3].wasEmpty /\ tickles[3].calls = 1
    /\ \A p \in Producers : producer[p] = NoSchedule


\* ------------------------------------------------------------------ C19
\* timer t was added and has neither fired as a one-shot timer nor been
\* cancelled: both clear its callback
Pending(t) == t < nextTimer /\ timer[t].m_cb # 0

PendingTimers == { t \in Timers : Pending(t) }

\* C19 as stated: the timer set is strictly ordered with ties broken by
\* identity, so two distinct timers with the same deadline coexist in it: the
\* set holds every timer added that has not fired (one-shot) or been
\* cancelled, and their number is the number added minus those.
C19_AsStated ==
    /\ m_timers = PendingTimers
    /\ Cardinality(m_timers) = Cardinality(PendingTimers)


\* ------------------------------------------------------------------ C20
\* a step in which a thread's call of cancel on timer t returns
CancelStep(t) ==
    \E th \in Threads :
        /\ timerCall'[th] # timerCall[th]
        /\ timerCall'[th].op = "cancel" /\ timerCall'[th].t = t

\* what the call of cancel in this step returned
CancelResult(t) ==
    CHOOSE rv \in BOOLEAN :
        \E th \in Threads : timerCall'[th] # timerCall[th] /\ timerCall'[th].rv = rv

\* C20 as stated: cancel(t) on a timer that has neither fired (one-shot) nor
\* been cancelled removes exactly t from the timer set and returns true, and
\* every other timer, one with t's deadline included, stays in the set with
\* its callback intact; cancel(t) on a timer that has fired or was cancelled
\* returns false and leaves the set unchanged.
C20_AsStated ==
    [][\A t \in Timers : CancelStep(t) =>
          IF Pending(t)
          THEN /\ CancelResult(t)
               /\ m_timers' = m_timers \ {t}
               /\ \A o \in Timers \ {t} : timer'[o] = timer[o]
          ELSE /\ ~CancelResult(t)
               /\ m_timers' = m_timers
               /\ timer' = timer]_vars


\* ------------------------------------------------------------------ C18
\* the reactors blocked in epoll_wait
Blocked == { th \in Workers : InIdle(th, {"epoll_wait"}) }

\* a call of addTimer that found its timer at the front has still to call
\* onTimerInsertedAtFront
FrontPending == \E th \in Threads : timerCall[th].pc = "onTimerInsertedAtFront"

\* timer t is in the set with a deadline before the end of the timeout that
\* reactor th is blocked with, and that timeout is not over
Preempts(t, th) ==
    t \in m_timers /\ timer[t].m_next < idle[th].deadline /\ now < idle[th].deadline

\* the wake-up of onTimerInsertedAtFront -> tickle is on its way: the call is
\* about to tickle, or the edge of the self-pipe is pending, which ends an
\* epoll_wait whatever its timeout
WakePending == tickle.edge \/ FrontPending

Covered(t) ==
    \/ WakePending
    \/ \E th \in Workers : th \notin Blocked
    \/ \E th \in Blocked : ~Preempts(t, th)

\* a reactor that enters epoll_wait has computed its timeout from the front
\* timer, capped by MAX_TIMEOUT
Recomputed ==
    \A th \in Workers :
        (InIdle(th, {"getNextTimer"}) /\ InIdle(th, {"epoll_wait"})')
            => /\ idle'[th].deadline <= now + milliseconds(MAX_TIMEOUT)
               /\ \A t \in m_timers :
                     idle'[th].deadline <= IF timer[t].m_next > now THEN timer[t].m_next
                                           ELSE now

IdleTerminates(th) ==
    /\ fiber[IdleFiber(th)].m_state # "TERM"
    /\ fiber'[IdleFiber(th)].m_state = "TERM"

\* the step in which worker th leaves the loop of Scheduler::run
LeavesRun(th) == exec[th].pc # "exit" /\ exec'[th].pc = "exit"

\* C16 as stated: no worker's idle coroutine terminates, and no worker leaves
\* its dispatch loop, unless at the moment of the decision stop() has set the
\* stopping flag, the task queue is empty, the count of active workers is 0,
\* the count of pending events is 0 and the timer set is empty, all together.
C16_AsStated ==
    [][\A th \in Workers :
          (IdleTerminates(th) \/ LeavesRun(th)) =>
              /\ m_stopping
              /\ m_tasks = <<>>
              /\ m_activeThreadCount = 0
              /\ m_pendingEventCount = 0
              /\ m_timers = {}]_vars


\* ------------------------------------------------------------------ C17
\* the coroutines submitted to the scheduler
Coroutines == { TaskFiber(n) : n \in SubmittedTasks }

\* every worker of the pool has left Scheduler::run
AllExited == \A th \in Pool : exec[th].pc = "exit"

\* stop() has been called / has returned
StopCalled == stopCall.pc # "none"
StopReturned == stopCall.pc = "returned"

\* C17 as stated: stop() is called while a coroutine has a pending sleep
\* timer and the workers are blocked in epoll_wait (the only moment at which
\* SpecStop calls it).  The timer still fires and the sleeping coroutine is
\* resumed and runs to TERM before all workers exit; when stop() returns the
\* task queue is empty and the count of active workers is 0; and under fair
\* scheduling stop() returns.
C17_AsStated ==
    /\ [](AllExited => \A f \in Coroutines : fiber[f].m_state = "TERM")
    /\ [](StopReturned => m_tasks = <<>> /\ m_activeThreadCount = 0)
    /\ StopCalled ~> StopReturned

\* ---------------------------------------------------------------- C21
\* a call of getNextTimer by thread th has just returned
NextTimeoutStep(th) ==
    timerCall'[th].op = "getNextTimer" /\ timerCall'[th] # timerCall[th]

\* the deadline of the front timer of a set that is not empty
FrontDeadline == timer[CHOOSE e \in begin(TimerLayer) : TRUE].m_next

\* C21 as stated: getNextTimer returns ~0ull iff the timer set is empty, 0
\* iff the deadline of the front timer is not after now, and otherwise a
\* number of milliseconds that is at most the time until that deadline; the
\* call clears m_tickled.
C21_AsStated ==
    [][\A th \in Threads : NextTimeoutStep(th) =>
          LET rv == timerCall'[th].rv
          IN /\ (rv = ALL_ONES) <=> (m_timers = {})
             /\ (rv = 0) <=> (m_timers # {} /\ FrontDeadline <= now)
             /\ rv \notin {ALL_ONES, 0} => milliseconds(rv) <= FrontDeadline - now
             /\ ~m_tickled']_vars

\* C21 (amended): getNextTimer returns ~0ull iff the timer set is empty;
\* otherwise it returns the whole milliseconds from now to the deadline of
\* the front timer, rounded down: 0 iff that deadline is less than one
\* millisecond after now (not after now included), and never more than the
\* time until the deadline and less than a millisecond short of it.  The
\* call clears m_tickled.
C21_NeverOversleeps ==
    [][\A th \in Threads : NextTimeoutStep(th) =>
          LET rv == timerCall'[th].rv
          IN /\ (rv = ALL_ONES) <=> (m_timers = {})
             /\ (rv = 0) <=> (m_timers # {} /\ FrontDeadline < now + milliseconds(1))
             /\ rv \notin {ALL_ONES, 0}
                   => /\ milliseconds(rv) <= FrontDeadline - now
                      /\ FrontDeadline - now < milliseconds(rv + 1)
             /\ ~m_tickled']_vars

\* getNextTimer has returned a timeout that is not 0 while the front timer
\* is due in a time that is not a whole number of milliseconds, and the
\* call cleared a flag that was set
C21_Witness ==
    /\ timerCall[0].op = "getNextTimer" /\ timerCall[0].rv \notin {ALL_ONES, 0}
    /\ m_timers # {} /\ ~m_tickled
    /\ FrontDeadline - now > milliseconds(timerCall[0].rv)

\* ---------------------------------------------------------------- C22
\* the idle coroutine of thread th has just returned from listExpiredCb
ListExpiredStep(th) == InIdle(th, {"listExpiredCb"}) /\ exec'[th].pc = "events"

\* the timers of the set whose deadline is not after now
Due == { t \in m_timers : timer[t].m_next <= now }

\* the positions of the callback of timer t in the list cbs
Positions(cbs, t) == { i \in 1..Len(cbs) : cbs[i] = timer[t].m_cb }

\* C22 as stated: without clock rollover, listExpiredCb at time now appends to
\* cbs the callback of every timer whose deadline is not after now, exactly
\* once each and in the order of the deadlines, and of no other timer;
\* afterwards every expired one-shot timer is out of the set with its
\* callback cleared and every expired recurring timer is in the set with
\* deadline now + period.
C22_AsStated ==
    [][\A th \in Workers : ListExpiredStep(th) /\ ~detectClockRollover(now) =>
          LET cbs == idle'[th].cbs
          IN /\ \A t \in Due : Cardinality(Positions(cbs, t)) = 1
             /\ Len(cbs) = Cardinality(Due)
             /\ \A t, u \in Due : timer[t].m_next < timer[u].m_next
                   => \A i \in Positions(cbs, t), j \in Positions(cbs, u) : i < j
             /\ \A t \in Due :
                   IF timer[t].m_recurring
                   THEN /\ t \in m_timers'
                        /\ timer'[t].m_next = now + milliseconds(timer[t].m_ms)
                   ELSE t \notin m_timers' /\ timer'[t].m_cb = 0
             /\ \A t \in m_timers \ Due : t \in m_timers' /\ timer'[t] = timer[t]]_vars

\* ---------------------------------------------------------------- C23
\* the idle coroutine of thread th has called listExpiredCb, which detected a
\* clock rollover
RolloverStep(th) ==
    /\ InIdle(th, {"listExpiredCb"}) /\ exec'[th].pc # "listExpiredCb"
    /\ detectClockRollover(now)

\* C23 as stated: when listExpiredCb detects a clock rollover (now more than
\* one hour before the previous probe), the callback of every timer in the
\* set, one-shot or recurring, is appended to cbs exactly once by that call,
\* none is dropped, and the call returns.
C23_AsStated ==
    [][\A th \in Workers : RolloverStep(th) =>
          LET cbs == idle'[th].cbs
          IN /\ exec'[th].pc = "events"
             /\ \A t \in m_timers : Cardinality(Positions(cbs, t)) = 1
             /\ Len(cbs) = Cardinality(m_timers)]_vars

\* ---------------------------------------------------------------- C24
\* the one-shot timers added with addTimer(0, cb) whose callback has neither
\* been collected nor cancelled
ZeroPending ==
    { t \in Timers : /\ t < nextTimer /\ timer[t].m_ms = 0
                     /\ ~timer[t].m_recurring /\ timer[t].m_cb # 0 }

\* the places of callback cb in the lists the reactors have collected and not
\* yet passed to scheduleLock
Collected(cb) ==
    { p \in Workers \X (1..MaxDrain) : p[2] <= Len(idle[p[1]].cbs) /\ idle[p[1]].cbs[p[2]] = cb }

\* how many times callback cb has been collected, submitted or run
Deliveries(cb) ==
    Cardinality(Collected(cb)) + InQueue(cb)
       + (IF ran[cb] = <<>> THEN Cardinality(HeldBy(cb)) ELSE Len(ran[cb]))

\* C24 as stated: the callback of addTimer(0, cb) is submitted to the
\* scheduler during the next reactor pass: the next listExpiredCb after a
\* return from epoll_wait collects it, the same pass hands every collected
\* callback to scheduleLock before the idle coroutine yields, and for a
\* one-shot timer this happens exactly once.
C24_AsStated ==
    /\ [][\A th \in Workers : ListExpiredStep(th) =>
             \A t \in ZeroPending : Cardinality(Positions(idle'[th].cbs, t)) = 1]_vars
    /\ [][\A th \in Workers :
             /\ InIdle(th, {"events"}) /\ idle[th].cbs # <<>> /\ idle'[th] # idle[th]
                   => /\ Len(m_tasks') = Len(m_tasks) + 1
                      /\ m_tasks'[Len(m_tasks')].cb = Head(idle[th].cbs)
             /\ InIdle(th, {"events"}) /\ exec'[th] # exec[th] => idle[th].cbs = <<>>]_vars
    /\ [](\A t \in Timers : t < nextTimer /\ ~timer[t].m_recurring
             => Deliveries(TimerCb(t)) <= 1)

\* ---------------------------------------------------------------- C25
\* the coroutine of task n is suspended in the yield of do_io
Parked(n) ==
    /\ fiber[TaskFiber(n)].m_state = "READY"
    /\ fiber[TaskFiber(n)].m_ctx.pc = "io_resumed"

\* something that will resume the coroutine of task n is on its way: its
\* condition timer is in the set, or the callback of the timer is collected,
\* queued, held or running, or the coroutine itself is queued or held by a
\* worker
WakeSource(n) ==
    \/ do_io[n].timer \in m_timers
    \/ Collected(TimeoutCb(n)) # {}
    \/ InQueue(TimeoutCb(n)) > 0 \/ HeldBy(TimeoutCb(n)) # {}
    \/ InQueue(n) > 0 \/ HeldBy(n) # {}

\* the hooked call of task n is in progress, its condition timer added
InDoIo(n) == do_io[n].timer # 0 /\ do_io[n].n = 0

\* the hooked call of task n has returned -1
Returned(n) == do_io[n].n = -1

\* C25 as stated: a coroutine that suspends in do_io with a timeout, waiting
\* for an fd that never becomes ready, is resumed when its condition timer
\* expires and observes ETIMEDOUT; for every interleaving of the timer expiry
\* with addEvent and yield it is never left suspended after the timer has
\* expired (a suspended coroutine always has a wake-up on its way, and the
\* call returns), and it is resumed exactly once (it is queued at most once
\* and not at all after the call has returned).
C25_AsStated ==
    /\ [](\A n \in 1..MaxHook : Parked(n) => WakeSource(n))
    /\ [](\A n \in 1..MaxHook :
             /\ InQueue(n) <= 1
             /\ Returned(n) => do_io[n].errno = ETIMEDOUT /\ InQueue(n) = 0)
    /\ \A n \in 1..MaxHook : InDoIo(n) ~> Returned(n)


\* ------------------------------------------------ Scheduler, use_caller
\* a plain Scheduler built with use_caller by thread 0: Scheduler(threads,
\* true) leaves threads - 1 threads for start() to create
InitCaller(threads) == InitWith(0, 1..(threads - 1), TRUE)

\* m_threads: the threads start() created
Started == { th \in Workers : exec[th].who # NoFiber }

\* scheduler.cpp lines 204-212: tickle() for each thread of the pool and once
\* more for the dispatch fiber; Scheduler::tickle is empty
StopCallerTickle ==
    /\ Live /\ stopCall.pc = "tickle" /\ exec[0].pc = "main"
    /\ tickle' = tickleOf(FALSE, tickle)
    /\ stopCall' = [stopCall EXCEPT !.pc = "resume", !.i = Cardinality(Started) + 1]
    /\ UNCHANGED <<do_io, ioState, m_tasks, m_idleThreadCount, crashed, fiberState, local,
                   m_activeThreadCount, m_stopping, producer, nextTask, ran, tickles,
                   timerState>>

\* a stop() that goes on to the join without resuming the dispatch fiber
\* (used to test the properties)
StopNoResume ==
    /\ Live /\ stopCall.pc = "resume"
    /\ exec' = [exec EXCEPT ![0].pc = "stop_resumed"]
    /\ stopCall' = [stopCall EXCEPT !.pc = "join"]
    /\ UNCHANGED <<do_io, ioState, m_tasks, m_idleThreadCount, tickle, crashed, fiber, t_fiber,
                   t_thread_fiber, t_scheduler_fiber, local,
                   m_activeThreadCount, m_stopping, producer, nextTask, ran, tickles,
                   timerState>>

\* lines 215-219: m_schedulerFiber->resume(); the dispatch fiber does not run
\* in the scheduler, so the context of stop() is saved in the main fiber of
\* the thread
StopResume ==
    /\ Live /\ stopCall.pc = "resume"
    /\ CommitFiber(resume(FiberLayer, 0, m_schedulerFiber, "stop_resumed"))
    /\ stopCall' = [stopCall EXCEPT !.pc = "join"]
    /\ UNCHANGED <<do_io, ioState, m_tasks, m_idleThreadCount, tickle,
                   t_thread_fiber, t_scheduler_fiber, local,
                   m_activeThreadCount, m_stopping, producer, nextTask, ran, tickles,
                   timerState>>

\* Fiber::MainFunc of the dispatch fiber enters Scheduler::run (lines 83-101)
\* on the thread that built the scheduler: no Fiber::GetThis(), the idle fiber
\* is constructed
RunStart(th) ==
    /\ Live /\ exec[th].pc = "MainFunc" /\ fiber[exec[th].who].m_cb = RunCb
    /\ fiber' = [fiber EXCEPT ![IdleFiber(th)] = NewFiber(IdleFiber(th), IdleCb, TRUE)]
    /\ exec' = [exec EXCEPT ![th].pc = "loop"]
    /\ UNCHANGED <<do_io, ioState, timerState, m_tasks, m_idleThreadCount, tickle, crashed,
                   t_fiber, t_thread_fiber, t_scheduler_fiber, schedState>>

\* Scheduler::run returned in the dispatch fiber (line 167): Fiber::MainFunc
\* clears the closure and sets TERM
RunReturn(th) ==
    /\ Live /\ exec[th].pc = "exit" /\ exec[th].who = m_schedulerFiber
    /\ CommitFiber(MainFuncEnd(FiberLayer, th))
    /\ UNCHANGED <<do_io, ioState, timerState, m_tasks, m_idleThreadCount, tickle, t_thread_fiber,
                   t_scheduler_fiber, schedState>>

\* lines 221-233: back from the dispatch fiber, the threads of the pool are
\* joined: stop() returns when every one of them has left Scheduler::run
StopCallerJoin ==
    /\ Live /\ stopCall.pc = "join" /\ exec[0] = Context(MainFiber(0), "stop_resumed")
    /\ \A th \in Started : exec[th].pc = "exit"
    /\ exec' = [exec EXCEPT ![0].pc = "main"]
    /\ stopCall' = [stopCall EXCEPT !.pc = "returned"]
    /\ UNCHANGED <<do_io, ioState, m_tasks, m_idleThreadCount, tickle, crashed, fiber, t_fiber,
                   t_thread_fiber, t_scheduler_fiber, local,
                   m_activeThreadCount, m_stopping, producer, nextTask, ran, tickles,
                   timerState>>

\* a thread in Scheduler::run of a plain Scheduler
RunLoop(th) ==
    \/ \E later \in BOOLEAN : Fetch(th, later)
    \/ RunTickle(th, FALSE)
    \/ Dispatch(th)
    \/ Resumed(th)
    \/ RunEntry(th)
    \/ MainFuncReturn(th)
    \/ TermYield(th)
    \/ RunIdle(th)
    \/ Idled(th)
    \/ SchedulerIdle(th)

\* the thread that built the scheduler: it schedules tasks (around fibers and
\* callbacks, for any thread or one of the scheduler's) and then calls stop()
CallerThread ==
    \/ /\ stopCall.pc = "none" /\ nextTask <= MaxCallerTask
       /\ \E kind \in {"fiber", "cb"}, thread \in {-1, 0} \cup Started :
             SchedulePush("p1", kind, thread)
    \/ stopCall.pc = "none" /\ ScheduleTickle("p1", FALSE)
    \/ producer["p1"].pc = "none" /\ exec[0].pc = "main" /\ StopStopping
    \/ StopFlag
    \/ StopCallerTickle
    \/ StopResume
    \/ RunStart(0)
    \/ RunLoop(0)
    \/ RunReturn(0)
    \/ StopCallerJoin

\* a plain Scheduler with use_caller and one or two threads
NextCaller ==
    \/ CallerThread
    \/ \E th \in Started : RunLoop(th)

InitCallers == \E threads \in 1..2 : InitCaller(threads)

SpecCaller ==
    /\ InitCallers
    /\ [][NextCaller]_vars
    /\ WF_vars(CallerThread)
    /\ \A th \in Workers : WF_vars(th \in Started /\ RunLoop(th))


\* closures that were entered on the thread that built the scheduler
CallerRan == { n \in Closures : \E i \in 1..Len(ran[n]) : ran[n][i] = 0 }

\* the dispatch fiber ended and control is back in the main fiber of thread 0
DispatchReturned ==
    fiber[m_schedulerFiber].m_state = "TERM" /\ exec[0].who = MainFiber(0)

\* tasks passed to scheduleLock so far
Scheduled == 1..(nextTask - 1)

\* C26: with use_caller the caller's thread runs no scheduled task before
\* stop() is called: it runs them only inside stop(), after m_stopping was
\* set and the dispatch fiber was resumed; the dispatch fiber ends only when
\* stopping() holds and the idle fiber of the caller's thread is TERM; stop()
\* joins the threads of the pool, and returns, only after the dispatch fiber
\* has returned; with threads = 1 every task scheduled before stop() has run
\* on the caller's thread when stop() returns, and stop() does return
C26_StopDrivesDispatch ==
    /\ [](stopCall.pc \in {"none", "m_stopping", "tickle", "resume"} =>
             CallerRan = {} /\ fiber[m_schedulerFiber].m_state = "READY")
    /\ [][CallerRan' # CallerRan =>
             stopCall.pc = "join" /\ m_stopping /\ exec[0].who # MainFiber(0)]_vars
    /\ [](fiber[m_schedulerFiber].m_state = "RUNNING" => m_stopping)
    /\ [](fiber[m_schedulerFiber].m_state = "TERM" =>
             SchedulerStopping /\ fiber[IdleFiber(0)].m_state = "TERM")
    /\ [][stopCall.pc # "returned" /\ stopCall'.pc = "returned" =>
             DispatchReturned /\ \A th \in Started : exec[th].pc = "exit"]_vars
    /\ [](stopCall.pc = "returned" /\ Started = {} =>
             \A n \in Scheduled : ran[n] = <<0>>)
    /\ (stopCall.pc = "m_stopping") ~> (stopCall.pc = "returned")

\* stop() of a scheduler with threads = 1 and use_caller returned after the
\* dispatch fiber ran both tasks scheduled before it
C26_Witness ==
    /\ stopCall.pc = "returned" /\ Started = {}
    /\ DispatchReturned
    /\ nextTask = MaxCallerTask + 1
    /\ \A n \in Scheduled : ran[n] = <<0>>


\* ------------------------------------------------ IOManager::tickle
\* a worker of an IOManager that has no timers and no registered events
TickleWorker(th) ==
    \/ \E later \in BOOLEAN : Fetch(th, later)
    \/ RunTickle(th, TRUE)
    \/ Dispatch(th)
    \/ Resumed(th)
    \/ RunEntry(th)
    \/ MainFuncReturn(th)
    \/ TermYield(th)
    \/ RunIdle(th)
    \/ Idled(th)
    \/ StoppingTimer(th)
    \/ StoppingPending(th)
    \/ StoppingSched(th)
    \/ IdleGetNextTimer(th)
    \/ \E pipe \in BOOLEAN : EpollReturn(th, pipe)
    \/ ListExpired(th)
    \/ IdleYield(th)

\* an IOManager with two workers and a thread that schedules callbacks for
\* any thread
NextTickle ==
    \/ nextTask <= MaxTickleTask /\ SchedulePush("p1", "cb", -1)
    \/ ScheduleTickle("p1", TRUE)
    \/ \E th \in Workers : TickleWorker(th)
    \/ now + milliseconds(1) <= milliseconds(MaxTickleTime) /\ Tick

\* the threads are scheduled fairly
SpecTickle ==
    /\ Init /\ [][NextTickle]_vars
    /\ WF_vars(ScheduleTickle("p1", TRUE))
    /\ \A th \in Workers : WF_vars(TickleWorker(th))

\* ------------------------------------------------------------------ C27
\* a step that is a call of IOManager::tickle: by scheduleLock after the
\* mutex is released, or by Scheduler::run for tickle_me
TickleCall ==
    \/ \E p \in Producers : producer[p].pc = "tickle" /\ producer'[p].pc # "tickle"
    \/ \E th \in Workers : exec[th].pc = "tickle" /\ exec'[th].pc # "tickle"

\* what a call of tickle() does to the self-pipe: exactly one byte if a worker
\* is counted idle, nothing otherwise
TickleWrites ==
    TickleCall =>
        IF m_idleThreadCount > 0
        THEN tickle'.bytes = tickle.bytes + 1 /\ tickle'.edge
        ELSE tickle' = tickle

\* worker th returns from epoll_wait with the report of the self-pipe
PipeReturn(th) ==
    /\ InIdle(th, {"epoll_wait"})
    /\ exec'[th].pc = "listExpiredCb" /\ idle'[th].pipe

\* worker th, which is counted idle and had left epoll_wait with an earlier
\* report of the self-pipe, reads the pipe empty and yields to Scheduler::run
DrainYield(th) ==
    /\ InIdle(th, {"events"}) /\ idle[th].pipe
    /\ exec'[th].who # IdleFiber(th) /\ exec'[th].pc = "idled"

C28_AsStated ==
    /\ \A r \in Reactors :
          reactor[r].pc = "trigger" =>
             reactor[r].cur.real_events \subseteq
                fdctx[reactor[r].cur.fd][reactor[r].cur.ptr].events
    /\ crashed.assert # "triggerEvent"


\* ------------------------------------------------------------------ C29
\* C29 as stated: the fd table never shrinks, and the FdContext the table
\* holds for an fd number, once created, stays the one it holds, also when
\* two threads call addEvent at the same time with different fds that are
\* both beyond the size of the table.
C29_AsStated ==
    [][/\ m_fdContexts'.size >= m_fdContexts.size
       /\ \A fd \in Fds :
             m_fdContexts.slot[fd] # 0 =>
                m_fdContexts'.slot[fd] = m_fdContexts.slot[fd]]_vars


\* ------------------------------------------------------------------ C30
\* the state of fiber f goes from a to b in this step
Moves(f, a, b) == fiber[f].m_state = a /\ fiber'[f].m_state = b

\* a thread switches to fiber f where f's context was saved: f->resume()
ByResume(f) ==
    \E th \in Threads :
        /\ t_fiber[th] # f /\ t_fiber'[th] = f
        /\ exec'[th] = fiber[f].m_ctx

\* fiber f, running its entry closure on a thread, yields: the thread
\* switches to f's parent and f's context is saved
ByYield(f) ==
    \E th \in Threads :
        /\ exec[th].who = f /\ t_fiber[th] = f
        /\ exec[th].pc \notin {"MainFunc", "TERM"}
        /\ t_fiber'[th] = Parent(FiberLayer, th, f)
        /\ exec'[th] = fiber[Parent(FiberLayer, th, f)].m_ctx
        /\ fiber'[f].m_ctx.who = f

\* the entry closure of fiber f returns into Fiber::MainFunc, which clears it
ByReturn(f) ==
    \E th \in Threads :
        /\ exec[th] = Context(f, "m_cb")
        /\ exec'[th] = Context(f, "TERM")
        /\ fiber'[f].m_cb = NoCb

\* f->reset(cb): a fiber that owns a stack gets a closure and its context is
\* bound to MainFunc on that stack; no thread switches
ByReset(f) ==
    /\ fiber[f].m_stack # NoFiber
    /\ fiber'[f].m_cb # NoCb
    /\ fiber'[f].m_ctx = Context(fiber[f].m_stack, "MainFunc")
    /\ UNCHANGED <<t_fiber, exec>>

\* the thread in Fiber::MainFunc after the entry closure of its fiber returned
AfterEntry(th) == exec[th].pc = "TERM"

\* C30: the state of a fiber changes only by READY -resume-> RUNNING,
\* RUNNING -yield-> READY, RUNNING -(entry returns)-> TERM and
\* TERM -reset-> READY (and by its construction); when the entry closure has
\* returned the closure is cleared and the state is TERM, and the next thing
\* the fiber does is yield to its parent, still TERM; so a TERM fiber is
\* RUNNING again only after a reset.
C30_StateMachine ==
    /\ [][\A f \in FiberIds :
             fiber'[f].m_state # fiber[f].m_state =>
                \/ Moves(f, "none", "READY") /\ fiber'[f].m_ctx = Context(f, "MainFunc")
                \/ Moves(f, "none", "RUNNING") /\ \E th \in Threads : f = MainFiber(th)
                \/ Moves(f, "READY", "RUNNING") /\ ByResume(f)
                \/ Moves(f, "RUNNING", "READY") /\ ByYield(f)
                \/ Moves(f, "RUNNING", "TERM") /\ ByReturn(f)
                \/ Moves(f, "TERM", "READY") /\ ByReset(f)]_vars
    /\ [](\A th \in Threads :
             AfterEntry(th) =>
                /\ fiber[exec[th].who].m_state = "TERM"
                /\ fiber[exec[th].who].m_cb = NoCb
                /\ t_fiber[th] = exec[th].who)
    /\ [][\A th \in Threads :
             AfterEntry(th) /\ exec'[th] # exec[th] =>
                /\ fiber'[exec[th].who].m_state = "TERM"
                /\ t_fiber'[th] = Parent(FiberLayer, th, exec[th].who)
                /\ exec'[th] = fiber[Parent(FiberLayer, th, exec[th].who)].m_ctx]_vars

\* a fiber whose first closure returned (TERM) was reset and resumed, yielded
\* half way through its second closure, and is RUNNING again
C30_Witness ==
    /\ fiber[TaskFiber(1)].m_state = "RUNNING"
    /\ fiber[TaskFiber(2)].m_state = "none"
    /\ ran[1] = <<0>> /\ ran[2] = <<0>>
    /\ TaskRunBy(TaskFiber(1)) = 2
    /\ exec[0] = Context(TaskFiber(1), "m_cb, after yield")


\* ------------------------------------------------------------------ C31
\* the threads on which Fiber::GetThis() has run
HasFibers == { th \in Threads : t_fiber[th] # NoFiber }

\* the parent of fiber f on thread th as the specification selects it: the
\* scheduler-parent if f runs under the scheduler, the thread-root otherwise
ParentRule(th, f) ==
    IF fiber[f].m_runInScheduler THEN t_scheduler_fiber[th] ELSE t_thread_fiber[th]

\* thread th switches to the READY fiber f: f->resume()
ResumeOn(th, f) == t_fiber[th] # f /\ t_fiber'[th] = f /\ fiber[f].m_state = "READY"

\* thread th leaves fiber f and f is no longer RUNNING: f->yield() (a fiber
\* that resumes another one stays RUNNING)
YieldOn(th, f) == t_fiber[th] = f /\ t_fiber'[th] # f /\ fiber'[f].m_state # "RUNNING"

\* the places at which a fiber goes on after a resume() it made returns: in
\* run() after a task or the idle fiber, in stop() after the dispatch fiber,
\* in user code after a fiber of its own
AfterResume == {"resumed", "idled", "stop_resumed", "main"}

\* C31: t_fiber of a thread is always the fiber whose code the thread
\* executes.  A resume of f is made by f's parent (the scheduler-parent if f
\* runs under the scheduler, the thread-root otherwise), saves in the parent
\* the place right after the resume and makes f current where f stopped;
\* while f stays current the contexts saved in its parent and in the
\* thread-root do not change; a yield of f makes the parent current again and
\* the thread goes on in it at the saved place.  On the thread of a
\* use_caller scheduler the parent of every task and idle fiber is the
\* dispatch fiber, whose parent is the thread-root.
C31_CurrentIsExecuting ==
    /\ [](\A th \in HasFibers : t_fiber[th] = exec[th].who)
    /\ [][\A th \in HasFibers : \A f \in FiberIds :
             /\ ResumeOn(th, f) =>
                   /\ exec[th].who = ParentRule(th, f)
                   /\ exec'[th] = fiber[f].m_ctx /\ exec'[th].who = f
                   /\ fiber'[ParentRule(th, f)].m_ctx.who = ParentRule(th, f)
                   /\ fiber'[ParentRule(th, f)].m_ctx.pc \in AfterResume
             /\ t_fiber[th] = f /\ t_fiber'[th] = f /\ f # t_thread_fiber[th] =>
                   /\ fiber'[ParentRule(th, f)].m_ctx = fiber[ParentRule(th, f)].m_ctx
                   /\ fiber'[t_thread_fiber[th]].m_ctx = fiber[t_thread_fiber[th]].m_ctx
             /\ YieldOn(th, f) =>
                   /\ t_fiber'[th] = ParentRule(th, f)
                   /\ exec'[th] = fiber[ParentRule(th, f)].m_ctx
                   /\ exec'[th].pc \in AfterResume]_vars
    /\ [](t_scheduler_fiber[0] = m_schedulerFiber =>
             /\ ParentRule(0, m_schedulerFiber) = MainFiber(0)
             /\ t_fiber[0] \notin {MainFiber(0), m_schedulerFiber} =>
                   ParentRule(0, t_fiber[0]) = m_schedulerFiber)

\* on the thread of a use_caller scheduler a callback's fiber is current and
\* executing under the dispatch fiber, which was resumed by stop() in the
\* thread-root
C31_Witness ==
    /\ t_fiber[0] = CbFiber(1) /\ exec[0] = Context(CbFiber(1), "m_cb")
    /\ ParentRule(0, CbFiber(1)) = m_schedulerFiber
    /\ fiber[m_schedulerFiber].m_ctx = Context(m_schedulerFiber, "resumed")
    /\ fiber[MainFiber(0)].m_ctx = Context(MainFiber(0), "stop_resumed")


\* ------------------------------------------------------------------ C32
\* tasks whose fibers are submitted in the requeue configuration
MaxResumeTask == 2
\* most entries of the queue in the requeue configuration
MaxRequeue == 2

\* scheduleLock(fiber, -1) of a fiber that exists, whatever its state (the
\* callback of the fiber's sleep timer, an event trigger, or user code, on
\* another thread): the task is appended under m_mutex; Scheduler::tickle is
\* empty, so the call is over
ScheduleFiber(p, n) ==
    /\ Live /\ producer[p].pc = "none"
    /\ fiber[TaskFiber(n)].m_state # "none"
    /\ Len(m_tasks) < MaxRequeue
    /\ m_tasks' = Append(m_tasks, [fiber |-> n, cb |-> 0, thread |-> -1])
    /\ UNCHANGED <<do_io, ioState, timerState, m_idleThreadCount, tickle, crashed, fiberState,
                   schedState>>

\* what a worker of a plain Scheduler does, its tasks being closures that
\* may yield half way
ResumeWorker(th) ==
    \/ \E later \in BOOLEAN : Fetch(th, later)
    \/ RunTickle(th, FALSE)
    \/ Dispatch(th)
    \/ Resumed(th)
    \/ RunEntry(th)
    \/ EntryYield(th)
    \/ EntryResumed(th)
    \/ MainFuncReturn(th)
    \/ TermYield(th)
    \/ RunIdle(th)
    \/ Idled(th)
    \/ SchedulerIdle(th)

\* a plain Scheduler with two workers: fibers are submitted, and any thread
\* may schedule a submitted fiber again at any moment, before it yielded,
\* while it waits, or after it ended
NextResume ==
    \/ nextTask <= MaxResumeTask /\ Len(m_tasks) < MaxRequeue /\ SchedulePush("p1", "fiber", -1)
    \/ ScheduleTickle("p1", FALSE)
    \/ \E n \in 1..MaxResumeTask : ScheduleFiber("p2", n)
    \/ \E th \in Workers : ResumeWorker(th)

SpecResume == Init /\ [][NextResume]_vars

\* worker th, holding an extracted task, passes the lock of the task's fiber
Dispatches(th) ==
    exec[th].pc = "dispatch" /\ local[th].task # NoTask /\ exec'[th] # exec[th]

\* C32: the assertion in resume never fails.  A worker gets past the lock of
\* its task's fiber only while no thread holds it and the fiber is READY or
\* TERM: a READY fiber becomes RUNNING and current on that worker, which holds
\* the lock; a TERM fiber stays TERM and is not made current.  A RUNNING task
\* fiber is current on exactly one worker, which holds its lock, so a worker
\* that dequeued the fiber before it yielded waits.
C32_ResumeOnlyReady ==
    /\ [](crashed.assert # "resume")
    /\ [][\A th \in Workers : Dispatches(th) =>
             LET f == FiberOf(local[th].task)
             IN /\ fiber[f].m_mutex = {} /\ fiber'[f].m_mutex = {th}
                /\ fiber[f].m_state \in {"READY", "TERM"}
                /\ \A o \in Threads : t_fiber[o] # f
                /\ IF fiber[f].m_state = "TERM"
                   THEN /\ fiber'[f].m_state = "TERM"
                        /\ t_fiber'[th] = t_fiber[th] /\ exec'[th].who = exec[th].who
                   ELSE /\ fiber'[f].m_state = "RUNNING"
                        /\ t_fiber'[th] = f /\ exec'[th] = fiber[f].m_ctx]_vars
    /\ [](\A n \in Tasks :
             fiber[TaskFiber(n)].m_state = "RUNNING" =>
                \E th \in Workers :
                   /\ fiber[TaskFiber(n)].m_mutex = {th}
                   /\ \A o \in Threads : t_fiber[o] = TaskFiber(n) <=> o = th)

\* a worker has dequeued a fiber that is still running on the other worker
\* and waits for its lock
C32_Witness ==
    \E th \in Workers, o \in Workers :
       /\ th # o
       /\ exec[th].pc = "dispatch" /\ local[th].task.fiber # 0
       /\ t_fiber[o] = FiberOf(local[th].task)
       /\ exec[o].pc = "m_cb"
       /\ fiber[FiberOf(local[th].task)].m_mutex = {o}

\* a worker dropped a dequeued fiber that had ended
C32_TermDropped ==
    \E th \in Workers :
       /\ exec[th].pc = "resumed" /\ local[th].task.fiber # 0
       /\ fiber[FiberOf(local[th].task)].m_state = "TERM"
       /\ fiber[FiberOf(local[th].task)].m_mutex = {th}
       /\ ran[local[th].task.fiber] # <<>>
       /\ m_tasks # <<>>


\* ------------------------------------------------------------------ C33
\* worker th is blocked in epoll_wait: nothing is reported for the self-pipe
\* and the timeout has not elapsed
InEpollWait(th) == InIdle(th, {"epoll_wait"}) /\ ~tickle.edge /\ now < idle[th].deadline

\* a call of tickle() is still to come: scheduleLock has pushed and not yet
\* tickled, or a worker is about to tickle for tickle_me
TickleToCome ==
    \/ \E p \in Producers : producer[p].pc = "tickle"
    \/ \E th \in Workers : exec[th].pc = "tickle"

\* C33 as stated: no worker is blocked in epoll_wait while the queue holds a
\* task it may run and the self-pipe holds no unread byte (and no tickle() is
\* still to come)
C33_AsStated ==
    \A th \in Workers :
       InEpollWait(th) /\ ~TickleToCome => Mine(m_tasks, th) = {} \/ tickle.bytes > 0


\* ------------------------------------------------------------------ C34
\* callbacks submitted in the configuration of the bounded epoll_wait
MaxLiveTask == 2

\* time passes, a millisecond: in a configuration that has no timers the
\* clock is read only to compare it with the deadlines of the epoll_wait
\* calls under way, so the passing of time is kept as the time that remains
\* to each of them
Elapse ==
    /\ Live /\ m_timers = {}
    /\ \E th \in Workers : idle[th].deadline > now
    /\ idle' = [th \in DOMAIN idle |->
                  [idle[th] EXCEPT !.deadline =
                      IF @ > now THEN @ - milliseconds(1) ELSE @]]
    /\ UNCHANGED <<do_io, ioState, m_tasks, m_idleThreadCount, tickle, crashed, fiberState,
                   schedState, timer, m_timers, m_tickled, m_previouseTime, now,
                   nextTimer, timerCall>>

\* a worker of an IOManager that has no timers and no registered events;
\* epoll_wait reports what is ready before it looks at its timeout, so it
\* returns on the timeout only while nothing is reported for the self-pipe
LiveWorker(th) ==
    \/ \E later \in BOOLEAN : Fetch(th, later)
    \/ RunTickle(th, TRUE)
    \/ Dispatch(th)
    \/ Resumed(th)
    \/ RunEntry(th)
    \/ MainFuncReturn(th)
    \/ TermYield(th)
    \/ RunIdle(th)
    \/ Idled(th)
    \/ StoppingTimer(th)
    \/ StoppingPending(th)
    \/ StoppingSched(th)
    \/ IdleGetNextTimer(th)
    \/ EpollReturn(th, TRUE)
    \/ ~tickle.edge /\ EpollReturn(th, FALSE)
    \/ ListExpired(th)
    \/ IdleYield(th)

\* an IOManager with two workers, no timers and no registered events; a
\* thread schedules callbacks for any thread or for worker 2
NextLive ==
    \/ /\ nextTask <= MaxLiveTask
       /\ \E thread \in {-1, 2} : SchedulePush("p1", "cb", thread)
    \/ ScheduleTickle("p1", TRUE)
    \/ \E th \in Workers : LiveWorker(th)
    \/ Elapse

\* the threads are scheduled fairly and time passes
SpecLive ==
    /\ Init /\ [][NextLive]_vars
    /\ WF_vars(ScheduleTickle("p1", TRUE))
    /\ \A th \in Workers : WF_vars(LiveWorker(th))
    /\ WF_vars(Elapse)

\* callback n is in the queue
Queued(n) == \E i \in 1..Len(m_tasks) : m_tasks[i].cb = n

\* C34: every callback put into the queue for any thread or for a worker is
\* eventually entered on a worker, on the worker it names if it names one,
\* whether or not a byte was written to the self-pipe for it: epoll_wait is
\* handed a timeout of at most MAX_TIMEOUT, and after every return the idle
\* coroutine yields to Scheduler::run, which scans the queue.
C34_EventuallyDispatched ==
    /\ [](\A th \in Workers :
             InIdle(th, {"epoll_wait"}) => idle[th].deadline <= now + milliseconds(MAX_TIMEOUT))
    /\ [][\A n \in 1..MaxLiveTask :
             ran'[n] # ran[n] =>
                \E th \in Workers :
                   /\ ran[n] = <<>> /\ ran'[n] = <<th>>
                   /\ local[th].task.cb = n /\ local[th].task.thread \in {-1, th}]_vars
    /\ \A n \in 1..MaxLiveTask : Queued(n) ~> ran[n] # <<>>

\* a worker for which no byte was written returned from epoll_wait on the
\* timeout while a callback it may run is queued, the self-pipe is empty and
\* no tickle() is still to come
C34_Witness ==
    \E th \in Workers :
       /\ InIdle(th, {"listExpiredCb"}) /\ ~idle[th].pipe
       /\ Mine(m_tasks, th) # {}
       /\ tickle.bytes = 0 /\ ~TickleToCome
       /\ \A o \in Workers : o # th => InEpollWait(o)


\* ------------------------------------------------------------------ C35
\* thread th makes the step of addTimer under the write lock, for a new timer
AddsTimer(th) ==
    /\ timerCall[th].pc = "none" /\ nextTimer' = nextTimer + 1
    /\ timerCall'[th].op = "addTimer" /\ timerCall'[th].t = nextTimer

\* timer t is in the set after the step and no timer of the set is due
\* before it
BecomesFront(t) ==
    /\ t \in m_timers'
    /\ \A o \in m_timers' : timer'[o].m_next >= timer'[t].m_next

\* C35 as stated: addTimer goes on to onTimerInsertedAtFront exactly when
\* the timer it inserted becomes the front of the set and m_tickled is unset;
\* it sets m_tickled in that case and leaves it otherwise, and the hook runs
\* in a later step, the lock released.
C35_AsStated ==
    [][\A th \in DOMAIN timerCall :
          AddsTimer(th) =>
             /\ timerCall'[th].pc = "onTimerInsertedAtFront"
                   <=> BecomesFront(nextTimer) /\ ~m_tickled
             /\ m_tickled' = (m_tickled \/ timerCall'[th].pc = "onTimerInsertedAtFront")
             /\ tickle' = tickle]_vars


\* ------------------------------------------------------------------ C36
\* the fibers whose mutex thread th holds
HoldsFiber(th) == { f \in FiberIds : fiber[f].m_mutex = {th} }

\* thread th passes the table lock and the mutex of an FdContext: addEvent in
\* do_io, cancelEvent in the callback of the condition timer
LocksFd(th) == exec[th].pc \in {"addEvent", "cancelEvent"} /\ exec'[th].pc # exec[th].pc

\* worker th has extracted a task and waits for the mutex of its fiber, which
\* worker o holds
WaitsFor(th, o) ==
    /\ exec[th].pc = "dispatch" /\ local[th].task # NoTask
    /\ fiber[FiberOf(local[th].task)].m_mutex = {o}

Extracted == { th \in Threads : local[th].task # NoTask }

\* the workers inside idle_fiber->resume(): counted at line 175, in the idle
\* coroutine or back from it and not yet counted out at line 177
InsideIdle == { th \in Threads : exec[th].who = IdleFiber(th) \/ exec[th].pc = "idled" }

\* C37: m_activeThreadCount is the number of workers that hold an extracted
\* task, m_idleThreadCount the number of workers inside the resume of their
\* idle coroutine; both are between 0 and the number of workers.  A worker
\* that skips a TERM fiber leaves both counters alone at the skip and counts
\* itself out right after, like one whose fiber yielded.
C37_CountersMatch ==
    /\ [](m_activeThreadCount = Cardinality(Extracted))
    /\ [](m_idleThreadCount = Cardinality(InsideIdle))
    /\ [](m_activeThreadCount \in 0..Cardinality(Workers))
    /\ [](m_idleThreadCount \in 0..Cardinality(Workers))
    /\ [][\A th \in Workers :
             Dispatches(th) /\ fiber[FiberOf(local[th].task)].m_state = "TERM" =>
                /\ m_activeThreadCount' = m_activeThreadCount
                /\ m_idleThreadCount' = m_idleThreadCount
                /\ exec'[th].pc = "resumed" /\ local'[th] = local[th]]_vars
    /\ [][\A th \in Workers :
             exec[th].pc = "resumed" /\ exec'[th].pc # "resumed" =>
                /\ m_activeThreadCount >= 1
                /\ m_activeThreadCount' = m_activeThreadCount - 1
                /\ local'[th].task = NoTask]_vars

\* a worker holds the lock of an ended fiber it extracted, the closure
\* having been entered on the other worker, which is inside its idle
\* coroutine: one worker is counted active and one idle
C37_Witness ==
    \E th \in Workers, o \in Workers :
       /\ th # o
       /\ exec[th].pc = "resumed" /\ local[th].task.fiber # 0
       /\ fiber[FiberOf(local[th].task)].m_state = "TERM"
       /\ ran[local[th].task.fiber] = <<o>>
       /\ exec[o].who = IdleFiber(o)
       /\ m_activeThreadCount = 1 /\ m_idleThreadCount = 1


\* ------------------------------------------------------------------ C38
\* an EventContext that holds a waiter: the scheduler and exactly one of the
\* coroutine and the callback
Populated(ec) == ec.scheduler /\ ((ec.fiber # 0) # (ec.cb # 0))

\* C38: in every FdContext whose mutex is free, bit E of events is set
\* exactly when the EventContext of E is populated, and the EventContext of
\* a clear bit is empty; the assertion of addEvent on the EventContext never
\* fails.
C38_BitIffPopulated ==
    /\ \A fd \in Fds, g \in Gens, e \in Event :
          fdctx[fd][g].mutex = Nil =>
             /\ e \in fdctx[fd][g].events <=> Populated(getEventContext(fdctx[fd][g], e))
             /\ e \notin fdctx[fd][g].events =>
                   getEventContext(fdctx[fd][g], e) = EmptyEventContext
    /\ crashed.assert # "addEvent"

\* a registration has ended, fired by the reactor, and a later one is in
\* force: its bit is set and its waiter held in an FdContext of the table
\* whose other event is clear and empty, no mutex held
C38_Witness ==
    /\ NoMutexHeld
    /\ \E i \in Ids, j \in Ids, fd \in Fds, e \in Event :
          /\ i < j /\ life[i] = "idle" /\ life[j] = "reg"
          /\ InTable(fd)
          /\ TableContext(fd).events = {e}
          /\ WaiterOf(getEventContext(TableContext(fd), e)) = j
          /\ \A o \in Event \ {e} : getEventContext(TableContext(fd), o) = EmptyEventContext


\* ------------------------------------------------------------------ C39
\* C39 as stated: every call of listExpiredCb made by an idle coroutine
\* terminates, whatever the timer set and the clock are.
C39_AsStated ==
    \A th \in Workers :
       InIdle(th, {"listExpiredCb"}) => ~listExpiredCb(TimerLayer, now).diverged


\* ------------------------------------------------------------------ C40
\* timers added in the configuration of the two-worker shutdown
MaxExitTimer == 1

\* stop(), lines 204-207, for a pool of both workers: tickle() once for each
\* thread
StopTickleWorkers ==
    /\ Live /\ stopCall.pc = "tickle" /\ stopCall.i < Cardinality(Workers)
    /\ tickle' = Tickle(tickle)
    /\ stopCall' = [stopCall EXCEPT !.i = @ + 1]
    /\ UNCHANGED <<do_io, ioState, m_tasks, m_idleThreadCount, crashed, fiberState, local,
                   m_activeThreadCount, m_stopping, producer, nextTask, ran, tickles,
                   timerState>>

\* stop(), lines 221-231, for a pool of both workers: stop() returns when
\* both have left Scheduler::run
StopJoinWorkers ==
    /\ Live /\ stopCall.pc = "tickle" /\ stopCall.i = Cardinality(Workers)
    /\ \A th \in Workers : exec[th].pc = "exit"
    /\ stopCall' = [stopCall EXCEPT !.pc = "returned"]
    /\ UNCHANGED <<do_io, ioState, m_tasks, m_idleThreadCount, tickle, crashed, fiberState, local,
                   m_activeThreadCount, m_stopping, producer, nextTask, ran, tickles,
                   timerState>>

\* a worker of an IOManager whose tasks are the callbacks of timers
ExitWorker(th) ==
    \/ \E later \in BOOLEAN : Fetch(th, later)
    \/ RunTickle(th, TRUE)
    \/ Dispatch(th)
    \/ Resumed(th)
    \/ RunEntry(th)
    \/ MainFuncReturn(th)
    \/ TermYield(th)
    \/ RunIdle(th)
    \/ Idled(th)
    \/ StoppingTimer(th)
    \/ StoppingPending(th)
    \/ StoppingSched(th)
    \/ IdleGetNextTimer(th)
    \/ \E pipe \in BOOLEAN : EpollReturn(th, pipe)
    \/ ListExpired(th)
    \/ IdleSchedule(th)
    \/ IdleYield(th)

\* an IOManager with two workers; the main thread adds a one-shot timer that
\* is due at once and calls stop()
NextExit ==
    \/ /\ stopCall.pc = "none" /\ nextTimer <= MaxExitTimer
       /\ AddTimer(0, 0, TimerCb(nextTimer), FALSE)
    \/ FrontInserted(0)
    \/ timerCall[0].pc = "none" /\ StopStopping
    \/ StopFlag
    \/ StopTickleWorkers
    \/ StopJoinWorkers
    \/ \E th \in Workers : ExitWorker(th)

SpecExit == Init /\ [][NextExit]_vars

\* C40 as stated: when a worker leaves its dispatch loop, no other worker
\* holds callbacks that its listExpiredCb took out of the timer set and that
\* it has not yet put into the queue.
C40_AsStated ==
    [][\A th \in Workers :
          LeavesRun(th) => \A o \in Workers \ {th} : idle[o].cbs = <<>>]_vars

====
